---- MODULE Spec2Model ----
(***************************************************************************)
(* Budget accounting ledger of shiv_erp: one Document row with its         *)
(* DocumentLine and Payment rows, the Document instance a caller holds in  *)
(* memory, and the auto-analytical rules.  Every handler (Model.save, the  *)
(* transitions confirm/post, the admin delete paths) is one action; a      *)
(* handler that raises after it has written rows leaves those rows         *)
(* written unless the code wraps it in transaction.atomic.                 *)
(*                                                                         *)
(* Money is Decimal with two places.  An amount is held in hundredths as   *)
(* two limbs [hi, lo] of value hi * Limb + lo, because a DecimalField of   *)
(* max_digits = 14 holds up to 10^14 - 1 hundredths.                       *)
(***************************************************************************)
EXTENDS Integers, Sequences, FiniteSets, TLC

VARIABLES doc, lines, payments, inst, rules, last, writers, budgets, revisions

vars == <<doc, lines, payments, inst, rules, last, writers, budgets, revisions>>

\* what the operations of one caller on the document leave alone: the
\* concurrent writers, the Budget row and its BudgetRevision rows
others == <<writers, budgets, revisions>>

-----------------------------------------------------------------------------
(* Bounds of the model *)

MaxLines == 2
MaxPays == 2

LineIds == 1..MaxLines
PayIds == 1..MaxPays

-----------------------------------------------------------------------------
(* Decimal amounts *)

MaxDigits == 14
DecimalPlaces == 2
Limb == 10 ^ (MaxDigits \div 2)
Cent == 10 ^ DecimalPlaces

Amt(h, l) == [hi |-> h, lo |-> l]
Norm(h, l) == [hi |-> h + (l \div Limb), lo |-> l % Limb]
Zero == Amt(0, 0)

AAdd(a, b) == Norm(a.hi + b.hi, a.lo + b.lo)
ASub(a, b) == Norm(a.hi - b.hi, a.lo - b.lo)
ALt(a, b) == a.hi < b.hi \/ (a.hi = b.hi /\ a.lo < b.lo)
ALeq(a, b) == a = b \/ ALt(a, b)

\* a + Decimal("0.0001") < b, compared in ten-thousandths
PlusEpsLt(a, b) == a.hi < b.hi \/ (a.hi = b.hi /\ a.lo * Cent + 1 < b.lo * Cent)

\* DecimalValidator(max_digits, decimal_places = 2) on a value that is not
\* negative: at most max_digits digits in all (max_digits >= 7 here)
DecimalFieldValid(a, max_digits) ==
    a.hi >= 0 /\ a.hi < 10 ^ (max_digits - MaxDigits \div 2)

\* (quantity * unit_price).quantize(Decimal("0.01")), quantity q in hundredths,
\* rounding half to even (the decimal context's default)
QuantizeProduct(q, p) ==
    LET A == p.hi * q
        B == p.lo * q
        fl == Norm(A \div Cent, (A % Cent) * (Limb \div Cent) + (B \div Cent))
        r == B % Cent
        up == (2 * r > Cent) \/ (2 * r = Cent /\ fl.lo % 2 = 1)
    IN  IF up THEN Norm(fl.hi, fl.lo + 1) ELSE fl

RECURSIVE SumAmt(_, _)
\* Sum over the ids in S of the amounts g[id]
SumAmt(g, S) ==
    IF S = {} THEN Zero
    ELSE LET x == CHOOSE y \in S : TRUE
         IN  AAdd(g[x], SumAmt(g, S \ {x}))

-----------------------------------------------------------------------------
(* Records *)

DocTypes == {"po", "so", "vendor_bill", "customer_invoice"}
FinancialTypes == {"vendor_bill", "customer_invoice"}
Statuses == {"draft", "confirmed", "posted", "cancelled"}
PaymentStatuses == {"not_paid", "partially_paid", "paid", "na"}
PayStatuses == {"draft", "posted", "cancelled"}

\* Dates are day numbers; Today is what timezone.localdate returns
Today == 15

NoDoc ==
    [exists |-> FALSE, number |-> "", doc_type |-> "po", contact |-> 0,
     issue_date |-> Today, status |-> "draft",
     posted_at |-> "null", due_date |-> "null", total_amount |-> Zero,
     paid_amount |-> Zero, payment_status |-> "na"]

NoLine ==
    [exists |-> FALSE, product |-> 0, quantity |-> 0, unit_price |-> Zero,
     line_total |-> Zero, analytic_account |-> 0]

NoPay == [exists |-> FALSE, amount |-> Zero, status |-> "draft"]

\* Product.category of product p ("" is blank); product 0 is no product
ProductCategory(p) == IF p = 1 THEN "wood" ELSE IF p = 2 THEN "metal" ELSE ""

-----------------------------------------------------------------------------
(* Document: derived fields, clean, save *)

is_financial(d) == d.doc_type \in FinancialTypes

LineTotals(ls) == [l \in LineIds |-> IF ls[l].exists THEN ls[l].line_total ELSE Zero]
PostedAmounts(ps) ==
    [p \in PayIds |-> IF ps[p].exists /\ ps[p].status = "posted" THEN ps[p].amount ELSE Zero]

SumLineTotals(ls) == SumAmt(LineTotals(ls), LineIds)
SumPostedPayments(ps) == SumAmt(PostedAmounts(ps), PayIds)

\* update_payment_status without its branch for paid_amount <= 0
PaymentStatusNoZeroPaid(total, paid) ==
    IF ALeq(total, Zero) THEN "not_paid"
    ELSE IF PlusEpsLt(paid, total) THEN "partially_paid"
    ELSE "paid"

\* the branches of update_payment_status that assign payment_status
PaymentStatusOf(total, paid) ==
    IF ALeq(total, Zero) THEN "not_paid"
    ELSE IF ALeq(paid, Zero) THEN "not_paid"
    ELSE IF PlusEpsLt(paid, total) THEN "partially_paid"
    ELSE "paid"

\* assignments that also clear the due_date of a paid document
SetPaidClearsDue(d, paid) ==
    [d EXCEPT !.paid_amount = paid,
              !.payment_status = PaymentStatusOf(d.total_amount, paid),
              !.due_date = IF PaymentStatusOf(d.total_amount, paid) = "paid"
                           THEN "null" ELSE @]

\* the assignments of update_payment_status for a financial document
SetPaid(d, paid) ==
    [d EXCEPT !.paid_amount = paid,
              !.payment_status = PaymentStatusOf(d.total_amount, paid)]

\* Document.update_payment_status(save=False) on the instance d
update_payment_status(d, ps) ==
    IF ~is_financial(d)
    THEN [d EXCEPT !.paid_amount = Zero, !.payment_status = "na"]
    ELSE SetPaid(d, SumPostedPayments(ps))

\* recalculate_totals that adds the sum of the lines to total_amount
RecalculateAdds(d, ls, ps) ==
    update_payment_status([d EXCEPT !.total_amount = AAdd(@, SumLineTotals(ls))], ps)

\* recalculate_totals that leaves total_amount as the instance has it
RecalculateKeepsTotal(d, ls, ps) == update_payment_status(d, ps)

\* Document.recalculate_totals on the instance d; the sums are of amounts in
\* hundredths, which quantize(Decimal("0.01")) leaves as they are
recalculate_totals(d, ls, ps) ==
    update_payment_status([d EXCEPT !.total_amount = SumLineTotals(ls)], ps)

\* clean that leaves the payment_status of a bill or invoice as it is
DocCleanKeepsNa(d) ==
    IF is_financial(d) THEN d
    ELSE [d EXCEPT !.payment_status = "na", !.due_date = "null"]

\* clean that does not clear due_date
DocCleanKeepsDueDate(d) ==
    IF is_financial(d)
    THEN IF d.payment_status = "na" THEN [d EXCEPT !.payment_status = "not_paid"] ELSE d
    ELSE [d EXCEPT !.payment_status = "na"]

\* Document.clean: what it assigns
DocClean(d) ==
    IF is_financial(d)
    THEN IF d.payment_status = "na" THEN [d EXCEPT !.payment_status = "not_paid"] ELSE d
    ELSE [d EXCEPT !.payment_status = "na", !.due_date = "null"]

\* Document.clean: when it raises
DocCleanRaises(d) == d.status = "posted" /\ ~is_financial(d)

\* Document.full_clean passes: the field validators and clean
DocFullCleanOk(d) ==
    /\ DecimalFieldValid(d.total_amount, MaxDigits)
    /\ DecimalFieldValid(d.paid_amount, MaxDigits)
    /\ ~DocCleanRaises(d)

-----------------------------------------------------------------------------
(* The stored rows as one value, for the operators that thread them *)

Db(d, ls, ps) == [doc |-> d, lines |-> ls, pays |-> ps]

\* Document.save of an instance that clean has left as c: the row is written
\* unless full_clean raises; the instance keeps what clean assigned
WriteDoc(db, c) ==
    IF DocFullCleanOk(c)
    THEN [db |-> [db EXCEPT !.doc = c], document |-> c, ok |-> TRUE]
    ELSE [db |-> db, document |-> c, ok |-> FALSE]

\* if not self.number: self.number = ...; the generated number is "set"
WithNumber(d) == IF d.number = "" THEN [d EXCEPT !.number = "set"] ELSE d

\* Document.save on the instance d
DocSave(db, d) == WriteDoc(db, DocClean(WithNumber(d)))

\* What a line's or payment's save leaves, sv being the outcome of the
\* document's save: the caller's instance d is the one saved when viaInst
Cascaded(sv, d, viaInst) ==
    [db |-> sv.db, document |-> IF viaInst THEN sv.document ELSE d, ok |-> sv.ok]

\* self.document.recalculate_totals(); self.document.save() after the row of
\* a line or payment is written (db has it): the document attribute is the
\* instance d when viaInst, and is otherwise loaded from the stored row
Cascade(db, d, viaInst) ==
    Cascaded(DocSave(db, recalculate_totals(IF viaInst THEN d ELSE db.doc,
                                            db.lines, db.pays)),
             d, viaInst)

-----------------------------------------------------------------------------
(* DocumentLine *)

\* full_clean without the check of the quantity's sign
LineCleanAnyQuantity(r) ==
    /\ r.unit_price.hi >= 0 /\ r.unit_price.hi < 10 ^ (12 - MaxDigits \div 2)
    /\ r.line_total.hi >= 0 /\ r.line_total.hi < 10 ^ (MaxDigits - MaxDigits \div 2)

\* DocumentLine.full_clean passes: the field validators (a quantity of the
\* model has at most 5 digits) and clean
LineFullCleanOk(r) ==
    /\ r.quantity >= 0
    /\ DecimalFieldValid(r.unit_price, 12)
    /\ DecimalFieldValid(r.line_total, MaxDigits)

\* save that leaves line_total as the caller assigned it
WithGivenLineTotal(r) == r

\* self.line_total = (self.quantity * self.unit_price).quantize(...); a line
\* that clean rejects is never written, and its product is left out
WithLineTotal(r) ==
    [r EXCEPT !.line_total =
        IF r.quantity >= 0 /\ r.unit_price.hi >= 0
        THEN QuantizeProduct(r.quantity, r.unit_price) ELSE Zero]

\* DocumentLine.save from full_clean on, r1 having its line_total.  No
\* transaction: the line row stays written when the document's save raises.
LineWrite(db, l, r1, d, viaInst) ==
    IF ~LineFullCleanOk(r1)
    THEN [db |-> db, document |-> d, ok |-> FALSE]
    ELSE Cascade([db EXCEPT !.lines[l] = r1], d, viaInst)

\* DocumentLine.save of the instance r as row l
LineSave(db, l, r, d, viaInst) == LineWrite(db, l, WithLineTotal(r), d, viaInst)

-----------------------------------------------------------------------------
(* Auto-analytical rules *)

\* matches that takes every rule of the document's type and contact for a
\* document-level rule
MatchesDocAlways(rule, d, hasLine, r) ==
    IF ~rule.is_active THEN FALSE
    ELSE IF d.doc_type # rule.transaction_type THEN FALSE
    ELSE IF rule.match_contact # 0 /\ d.contact # rule.match_contact THEN FALSE
    ELSE IF ~hasLine THEN TRUE
    ELSE IF rule.match_product # 0 /\ r.product # rule.match_product THEN FALSE
    ELSE IF /\ rule.match_product_category # ""
            /\ (r.product = 0 \/ ProductCategory(r.product) # rule.match_product_category)
         THEN FALSE
    ELSE TRUE

\* AutoAnalyticalRule.matches(document=d, line=r); line None is hasLine FALSE
matches(rule, d, hasLine, r) ==
    IF ~rule.is_active THEN FALSE
    ELSE IF d.doc_type # rule.transaction_type THEN FALSE
    ELSE IF rule.match_contact # 0 /\ d.contact # rule.match_contact THEN FALSE
    ELSE IF ~hasLine
         THEN ~(rule.match_product # 0 \/ rule.match_product_category # "")
    ELSE IF rule.match_product # 0 /\ r.product # rule.match_product THEN FALSE
    ELSE IF /\ rule.match_product_category # ""
            /\ (r.product = 0 \/ ProductCategory(r.product) # rule.match_product_category)
         THEN FALSE
    ELSE TRUE

\* order_by("id") alone
RuleBeforeById(a, b) == a.id < b.id

\* rule a comes before rule b in order_by("priority", "id")
RuleBefore(a, b) == a.priority < b.priority \/ (a.priority = b.priority /\ a.id < b.id)

\* filter(is_active=True, transaction_type=document.doc_type)
ActiveRules(rs, d) == {x \in rs : x.is_active /\ x.transaction_type = d.doc_type}

\* The first rule of M in order, as a set (empty when M is)
FirstRule(M) == {x \in M : \A y \in M : y = x \/ RuleBefore(x, y)}

\* for rule in rules: if rule.matches(document=d, line=r): ... break
FirstLineRule(act, d, r) == FirstRule({x \in act : matches(x, d, TRUE, r)})

\* the second loop without its test of matches
FirstDocRuleAny(act, d) == FirstRule(act)

\* for rule in rules: if rule.matches(document=d, line=None): ... break
FirstDocRule(act, d) == FirstRule({x \in act : matches(x, d, FALSE, NoLine)})

\* The state of a call: the rows, whether no save has raised, and the result
ApplyState(db, ok, n, ids) ==
    [db |-> db, ok |-> ok, updated_lines |-> n, applied_rule_ids |-> ids]

\* line.analytic_account = rule.assign_analytic_account; line.save(...);
\* updated_lines += 1; sv is the outcome of the save
Assigned(st, sv, rule) ==
    ApplyState(sv.db, sv.ok, st.updated_lines + 1, st.applied_rule_ids \cup {rule.id})

\* the assignment without its test of analytic_account_id
AssignLineAny(st, l, d, hit) ==
    IF hit = {} \/ ~st.db.lines[l].exists
    THEN st
    ELSE Assigned(st,
                  LineSave(st.db, l,
                           [st.db.lines[l] EXCEPT !.analytic_account =
                               (CHOOSE x \in hit : TRUE).assign_analytic_account],
                           d, FALSE),
                  CHOOSE x \in hit : TRUE)

\* One line of a loop over the loaded lines: hit is the rule to assign, as a
\* set.  The line's document attribute is loaded from the stored row.
AssignLine(st, l, d, hit) ==
    IF hit = {} \/ ~st.db.lines[l].exists \/ st.db.lines[l].analytic_account # 0
    THEN st
    ELSE Assigned(st,
                  LineSave(st.db, l,
                           [st.db.lines[l] EXCEPT !.analytic_account =
                               (CHOOSE x \in hit : TRUE).assign_analytic_account],
                           d, FALSE),
                  CHOOSE x \in hit : TRUE)

MinId(S) == CHOOSE x \in S : \A y \in S : x <= y

\* a loop that ends after its first line
LinePassOnce(st, S, d, pk) ==
    IF S = {} \/ ~st.ok THEN st
    ELSE AssignLine(st, MinId(S), d, pk[MinId(S)])

RECURSIVE LinePass(_, _, _, _)
\* A loop of apply_auto_analytics over the lines with ids in S, in id order:
\* pk[l] is the rule the loop assigns to line l while the line has no
\* account.  A save that raises ends the call.
LinePass(st, S, d, pk) ==
    IF S = {} \/ ~st.ok THEN st
    ELSE LinePass(AssignLine(st, MinId(S), d, pk[MinId(S)]), S \ {MinId(S)}, d, pk)

\* the result without its test of updated_lines
ApplyResultAlways(db, st, docRule) ==
    IF ~st.ok THEN ApplyState(db, FALSE, 0, {})
    ELSE [st EXCEPT !.applied_rule_ids = @ \cup {x.id : x \in docRule}]

\* return AutoAnalyticsResult(...): the document-level rule is added to
\* applied_rule_ids when updated_lines is not 0.  The call is inside
\* transaction.atomic: a save that raised rolls every write back.
ApplyResult(db, st, docRule) ==
    IF ~st.ok THEN ApplyState(db, FALSE, 0, {})
    ELSE IF st.updated_lines > 0
    THEN [st EXCEPT !.applied_rule_ids = @ \cup {x.id : x \in docRule}]
    ELSE st

\* The two loops of apply_auto_analytics over the active rules act
ApplyRules(db, d, act) ==
    ApplyResult(db,
        LinePass(LinePass(ApplyState(db, TRUE, 0, {}), LineIds, d,
                          [l \in LineIds |-> FirstLineRule(act, d, db.lines[l])]),
                 LineIds, d, [l \in LineIds |-> FirstDocRule(act, d)]),
        FirstDocRule(act, d))

\* services.apply_auto_analytics(document=d)
apply_auto_analytics(db, rs, d) ==
    IF ActiveRules(rs, d) = {} THEN ApplyState(db, TRUE, 0, {})
    ELSE ApplyRules(db, d, ActiveRules(rs, d))

\* validate_cost_centers that never raises
NoCostCenterCheck(ls) == FALSE

\* Document.validate_cost_centers raises
MissingCostCenter(ls) == \E l \in LineIds : ls[l].exists /\ ls[l].analytic_account = 0

\* A request that saves a line or a payment, between its statements: where
\* it is, the row it saves and the Document instance it holds
Writers == {1, 2}
Idle == [pc |-> "idle", kind |-> "line", document |-> NoDoc]

\* The stored expense Budget row of cost center 1 and the period, and a
\* BudgetRevision row; revisions holds the rows in the order of their creation
NoBudgetRow == [exists |-> FALSE, amount |-> Zero]
Revision(amt, by) == [revised_amount |-> amt, revised_by |-> by]
MaxRevisions == 3

-----------------------------------------------------------------------------
(* Budget: a budget b has a kind, a cost center, the dates of its period and
   an amount; its properties are computed from the stored rows db *)

NoBudget ==
    [kind |-> "expense", analytic_account |-> 0, start_date |-> 0, end_date |-> 0,
     amount |-> Zero]

\* doc_types of Budget.actual_amount
BudgetDocType(b) == IF b.kind = "expense" THEN "vendor_bill" ELSE "customer_invoice"

\* the rows DocumentLine.objects.filter(...) of actual_amount selects
BudgetLines(b, db) ==
    {l \in LineIds :
        /\ db.lines[l].exists
        /\ db.lines[l].analytic_account = b.analytic_account
        /\ db.doc.exists
        /\ db.doc.doc_type = BudgetDocType(b)
        /\ db.doc.status = "posted"
        /\ db.doc.issue_date >= b.start_date
        /\ db.doc.issue_date <= b.end_date}

\* the filter without document__status
BudgetLinesAnyStatus(b, db) ==
    {l \in LineIds :
        /\ db.lines[l].exists
        /\ db.lines[l].analytic_account = b.analytic_account
        /\ db.doc.exists
        /\ db.doc.doc_type = BudgetDocType(b)
        /\ db.doc.issue_date >= b.start_date
        /\ db.doc.issue_date <= b.end_date}

\* actual_amount over the filter without document__status
ActualAnyStatus(b, db) ==
    SumAmt([l \in LineIds |-> db.lines[l].line_total], BudgetLinesAnyStatus(b, db))

\* Budget.actual_amount
actual_amount(b, db) ==
    SumAmt([l \in LineIds |-> db.lines[l].line_total], BudgetLines(b, db))

\* Budget.variance
variance(b, db) == ASub(b.amount, actual_amount(b, db))

\* remaining_balance that turns around for a revenue budget
RemainingTurned(b, db) ==
    IF b.kind = "expense" THEN ASub(b.amount, actual_amount(b, db))
    ELSE ASub(actual_amount(b, db), b.amount)

\* Budget.remaining_balance
remaining_balance(b, db) ==
    IF b.kind = "expense" THEN ASub(b.amount, actual_amount(b, db))
    ELSE ASub(b.amount, actual_amount(b, db))

\* n / m rounded half to even, for n >= 0 and m > 0
DivHalfEven(n, m) ==
    IF 2 * (n % m) > m \/ (2 * (n % m) = m /\ (n \div m) % 2 = 1)
    THEN (n \div m) + 1 ELSE n \div m

\* (a / m * Decimal("100")).quantize(Decimal("0.01")) for amounts below
\* 100000.00, which those of the budgets and lines read here are
Percent(a, m) == Norm(0, DivHalfEven(a.lo * 100 * Cent, m.lo))

\* achievement_percent that stops at 100.00
AchievementCapped(b, db) ==
    IF b.amount = Zero THEN Zero
    ELSE IF ALt(Amt(0, 100 * Cent), Percent(actual_amount(b, db), b.amount))
    THEN Amt(0, 100 * Cent)
    ELSE Percent(actual_amount(b, db), b.amount)

\* Budget.achievement_percent
achievement_percent(b, db) ==
    IF b.amount = Zero THEN Zero
    ELSE IF b.kind = "expense" THEN Percent(actual_amount(b, db), b.amount)
    ELSE Percent(actual_amount(b, db), b.amount)

\* The four properties of budget b as a caller reads them
Report(b, db) ==
    [budget |-> b,
     actual_amount |-> actual_amount(b, db),
     variance |-> variance(b, db),
     achievement_percent |-> achievement_percent(b, db),
     remaining_balance |-> remaining_balance(b, db)]

NoReport ==
    [budget |-> NoBudget, actual_amount |-> Zero, variance |-> Zero,
     achievement_percent |-> Zero, remaining_balance |-> Zero]

\* analytic_ids of budget_report, for the listed budgets bs
analytic_ids(bs) == {b.analytic_account : b \in bs}

\* line_qs of budget_report narrowed to the documents of type t: the lines on
\* an account of a listed budget, of a posted document dated in the
\* selected period
ReportLines(bs, db, t, period) ==
    {l \in LineIds :
        /\ db.lines[l].exists
        /\ db.lines[l].analytic_account \in analytic_ids(bs)
        /\ db.doc.exists
        /\ db.doc.status = "posted"
        /\ db.doc.issue_date >= period.start_date
        /\ db.doc.issue_date <= period.end_date
        /\ db.doc.doc_type = t}

\* expense_actual_total (t is vendor_bill) and revenue_actual_total (t is
\* customer_invoice) of budget_report with a period selected
actual_total(bs, db, t, period) ==
    IF analytic_ids(bs) = {} THEN Zero
    ELSE SumAmt([l \in LineIds |-> db.lines[l].line_total], ReportLines(bs, db, t, period))

\* rows of budget_report: every listed budget with its actual_amount
ReportRows(bs, db) == {[budget |-> b, actual |-> actual_amount(b, db)] : b \in bs}

-----------------------------------------------------------------------------
(* The health score of budget_report, from the totals its queries return:
   the actual and budgeted revenue and expense, and the counts of due
   documents and of those paid on time *)

\* _pct(n, d) of budget_report
pct(n, d) == IF ALeq(d, Zero) THEN Zero ELSE Percent(n, d)

\* expense_control_pct, from expense_used_pct
expense_control_pct(used) ==
    IF ALt(ASub(Amt(0, 100 * Cent), used), Zero) THEN Zero
    ELSE IF ALt(Amt(0, 100 * Cent), ASub(Amt(0, 100 * Cent), used)) THEN Amt(0, 100 * Cent)
    ELSE ASub(Amt(0, 100 * Cent), used)

\* payment_health_pct, from docs_on_time and docs_due_total
payment_health_pct(on_time, due_total) ==
    IF due_total = 0 THEN Zero ELSE Norm(0, DivHalfEven(on_time * 100 * Cent, due_total))

\* int(round(float(sum / Decimal("3.00")))): round of a float goes to the
\* even integer on a tie
RoundedAverage(sum) == DivHalfEven(sum.lo, 3 * Cent)

\* overall_score without its two bounds
OverallUnbounded(rev, control, health) == RoundedAverage(AAdd(AAdd(rev, control), health))

\* overall_score
overall_score(rev, control, health) ==
    IF RoundedAverage(AAdd(AAdd(rev, control), health)) < 0 THEN 0
    ELSE IF RoundedAverage(AAdd(AAdd(rev, control), health)) > 100 THEN 100
    ELSE RoundedAverage(AAdd(AAdd(rev, control), health))

\* The scalar health metrics of the report for totals t
Score(t) ==
    [totals |-> t,
     revenue_achievement_pct |-> pct(t.revenue_actual, t.revenue_budget),
     expense_used_pct |-> pct(t.expense_actual, t.expense_budget),
     expense_control_pct |-> expense_control_pct(pct(t.expense_actual, t.expense_budget)),
     payment_health_pct |-> payment_health_pct(t.docs_on_time, t.docs_due_total),
     overall_score |->
         overall_score(pct(t.revenue_actual, t.revenue_budget),
                       expense_control_pct(pct(t.expense_actual, t.expense_budget)),
                       payment_health_pct(t.docs_on_time, t.docs_due_total))]

NoTotals ==
    [revenue_actual |-> Zero, revenue_budget |-> Zero, expense_actual |-> Zero,
     expense_budget |-> Zero, docs_on_time |-> 0, docs_due_total |-> 0]

NoScore ==
    [totals |-> NoTotals, revenue_achievement_pct |-> Zero, expense_used_pct |-> Zero,
     expense_control_pct |-> Zero, payment_health_pct |-> Zero, overall_score |-> 0]

-----------------------------------------------------------------------------
(* The portal: who a request comes from, and which document it may see *)

\* Contact rows: contact 3 is not active
PortalContacts == {1, 2, 3}
ContactRows == [c \in PortalContacts |-> [is_active |-> c # 3]]

\* request.user: contact_profile is the contact whose user it is, 0 for none
Account(auth, staff, c) == [is_authenticated |-> auth, is_staff |-> staff, contact_profile |-> c]
AnonymousUser == Account(FALSE, FALSE, 0)

\* _portal_contact(request): the contact, or 0 where it raises Http404
portal_contact(u) ==
    IF ~u.is_authenticated \/ u.is_staff THEN 0
    ELSE IF u.contact_profile = 0 \/ ~ContactRows[u.contact_profile].is_active THEN 0
    ELSE u.contact_profile

\* the lookup without its contact filter
FoundByNumber(d, number, contact) == d.exists /\ d.number = number

\* get_object_or_404(Document..., number=number, contact=contact) finds d
Found(d, number, contact) == d.exists /\ d.number = number /\ d.contact = contact

\* login_required, _portal_contact and the lookup of the three portal views:
\* "login" is the redirect to the login page
PortalAccess(u, d, number) ==
    IF ~u.is_authenticated THEN "login"
    ELSE IF portal_contact(u) = 0 THEN "not_found"
    ELSE IF ~Found(d, number, portal_contact(u)) THEN "not_found"
    ELSE "ok"

-----------------------------------------------------------------------------
(* Inputs of the operations *)

\* Dates around a period: the day before it, its first and last day, the
\* day after it
PeriodStart == 10
PeriodEnd == 20
IssueDates == {PeriodStart - 1, PeriodStart, PeriodEnd, PeriodEnd + 1}

\* Budgets of both kinds on cost center 1: none planned, 3.00, 7.04, 11.00
Budgets ==
    {[kind |-> k, analytic_account |-> 1, start_date |-> PeriodStart,
      end_date |-> PeriodEnd, amount |-> Amt(0, m)] :
        k \in {"expense", "revenue"}, m \in {0, 300, 704, 1100}}

\* selected_period of a report
SelectedPeriod == [start_date |-> PeriodStart, end_date |-> PeriodEnd]

\* The budgets a report lists: any of the expense and the revenue budget of
\* cost centers 1 and 2 for the period
ListedBudgets ==
    SUBSET {[kind |-> k, analytic_account |-> a, start_date |-> PeriodStart,
             end_date |-> PeriodEnd, amount |-> Amt(0, 704)] :
                k \in {"expense", "revenue"}, a \in {1, 2}}

\* Documents dated around the period
DatedInputs ==
    {[status |-> "draft", payment_status |-> "na", due_date |-> "null",
      total_amount |-> Zero, issue_date |-> day] : day \in IssueDates}

Contacts == {1}
DemoVendor == 2
Users == {1, 2}

\* budget_amount of a form, and actual_amount: none, 5.50, and an amount
\* the form takes (14 digits) and unit_price does not (12 digits)
BudgetAmounts == {Amt(0, 300), Amt(0, 704)}
ActualTooBig == Amt(1000000, 0)         \* 10000000000000.00 in hundredths
ActualAmounts == {Zero, Amt(0, 550), ActualTooBig}

\* Who asks: nobody logged in, a staff user (with and without a contact), a
\* user without a contact, and the users of contacts 1, 2 and 3
PortalAccounts ==
    {AnonymousUser, Account(TRUE, TRUE, 0), Account(TRUE, TRUE, 1), Account(TRUE, FALSE, 0),
     Account(TRUE, FALSE, 1), Account(TRUE, FALSE, 2), Account(TRUE, FALSE, 3)}

\* the number of the stored document, and one no document has
Numbers == {"set", "other"}

\* Totals of a report: revenue and expense that are absent, below, at and
\* above their budgets, budgets that are absent, and 0 of 0, 0 of 1, 1 of 1,
\* 1 of 3 and 1 of 8 due documents paid on time
ScoreTotals ==
    {[revenue_actual |-> Amt(0, ra), revenue_budget |-> Amt(0, rb),
      expense_actual |-> Amt(0, ea), expense_budget |-> Amt(0, eb),
      docs_on_time |-> c[1], docs_due_total |-> c[2]] :
        ra \in {0, 19, 550, 1100}, rb \in {0, 200, 300},
        ea \in {0, 550, 1100}, eb \in {0, 704, 1100},
        c \in {<<0, 0>>, <<0, 1>>, <<1, 1>>, <<1, 3>>, <<1, 8>>}}

\* what a submission of the revision inline does: nothing, an edit of the
\* first row shown, a row added
InlineInputs ==
    {[kind |-> "none", row |-> 0, amount |-> Zero, by |-> 0],
     [kind |-> "edit", row |-> 1, amount |-> Amt(0, 999), by |-> 2],
     [kind |-> "add", row |-> 0, amount |-> Amt(0, 999), by |-> 2]}
Products == {0, 1}
Accounts == {0, 1}

Price550 == Amt(0, 550)                \* 5.50
PriceNeg == Amt(-1, Limb - 1)          \* -0.01
PriceBig == Amt(60000, 0)              \* 6000000000.00

PlainLine == [quantity |-> 100, unit_price |-> Price550]
DoubleLine == [quantity |-> 200, unit_price |-> Price550]

\* quantity (in hundredths) and unit_price of a line a caller saves: two that
\* clean rejects, 5.50, 600000000000.00, and a line_total of 15 digits
LineInputs ==
    {[quantity |-> -100, unit_price |-> Price550],
     [quantity |-> 100, unit_price |-> PriceNeg],
     PlainLine,
     [quantity |-> 10000, unit_price |-> PriceBig],
     [quantity |-> 20000, unit_price |-> PriceBig]}

\* Lines whose product has more than two decimals (0.005, 0.015, 0.025,
\* 0.033), 5.50 and 600000000000.00, each with and without a line_total of
\* the caller's
ProductInputs ==
    {[quantity |-> 50, unit_price |-> Amt(0, 1)],
     [quantity |-> 150, unit_price |-> Amt(0, 1)],
     [quantity |-> 250, unit_price |-> Amt(0, 1)],
     [quantity |-> 33, unit_price |-> Amt(0, 10)],
     PlainLine,
     [quantity |-> 10000, unit_price |-> PriceBig]}
GivenLineTotal == Amt(0, 9999)         \* 99.99
TotalInputs ==
    ProductInputs \cup
    {[quantity |-> i.quantity, unit_price |-> i.unit_price, line_total |-> GivenLineTotal] :
        i \in ProductInputs}

\* amount of a payment a caller saves
PayAmounts == {Amt(0, 0), Amt(-1, Limb - 550), Amt(0, 550), Amt(0, 1100)}

\* The fields a caller supplies to Document.objects.create besides doc_type
\* and contact; DefaultInput is the fields' defaults
DefaultInput ==
    [status |-> "draft", payment_status |-> "na", due_date |-> "null", total_amount |-> Zero]
\* a caller's due_date and payment_status
DueInput ==
    [status |-> "draft", payment_status |-> "paid", due_date |-> "set", total_amount |-> Zero]
CreateInputs ==
    {DefaultInput,
     [status |-> "draft", payment_status |-> "paid", due_date |-> "set", total_amount |-> Zero],
     [status |-> "draft", payment_status |-> "na", due_date |-> "null", total_amount |-> Amt(0, 10000)],
     [status |-> "posted", payment_status |-> "na", due_date |-> "null", total_amount |-> Zero]}

\* The fields a caller assigns to the instance before Document.save; "keep"
\* assigns nothing
SaveInputs ==
    {[status |-> "keep", payment_status |-> "keep", due_date |-> "keep"],
     [status |-> "cancelled", payment_status |-> "paid", due_date |-> "set"],
     [status |-> "posted", payment_status |-> "keep", due_date |-> "keep"]}

\* a caller that assigns payment_status not_applicable, and one that assigns
\* nothing
NaInput == [status |-> "keep", payment_status |-> "na", due_date |-> "keep"]
KeepInput == [status |-> "keep", payment_status |-> "keep", due_date |-> "keep"]

\* The rule sets of the model: a product-category rule for customer invoices,
\* alone and with a document-level rule after it
RuleWood ==
    [id |-> 1, priority |-> 1, is_active |-> TRUE, transaction_type |-> "customer_invoice",
     match_contact |-> 0, match_product |-> 0, match_product_category |-> "wood",
     assign_analytic_account |-> 1]
RuleContact ==
    [id |-> 2, priority |-> 2, is_active |-> TRUE, transaction_type |-> "customer_invoice",
     match_contact |-> 1, match_product |-> 0, match_product_category |-> "",
     assign_analytic_account |-> 2]
RuleSets == {{RuleWood}, {RuleWood, RuleContact}}

\* Rules that compete with RuleWood: a later id with an earlier priority, a
\* later id with the same priority, an inactive one and one of another type
RuleFirst ==
    [RuleWood EXCEPT !.id = 3, !.priority = 0, !.assign_analytic_account = 3]
RuleTie ==
    [RuleWood EXCEPT !.id = 4, !.assign_analytic_account = 4]
RuleOff ==
    [RuleWood EXCEPT !.id = 5, !.priority = 0, !.is_active = FALSE,
                     !.assign_analytic_account = 5]
RuleBill ==
    [RuleContact EXCEPT !.id = 6, !.priority = 0, !.transaction_type = "vendor_bill",
                        !.assign_analytic_account = 6]
\* a rule without filters, of a later id and an earlier priority than
\* RuleContact
RuleAny ==
    [RuleContact EXCEPT !.id = 7, !.priority = 1, !.match_contact = 0,
                        !.assign_analytic_account = 7]
CompetingRuleSets ==
    {{RuleWood, RuleContact},
     {RuleWood, RuleFirst},
     {RuleWood, RuleTie, RuleContact},
     {RuleWood, RuleOff, RuleBill},
     {RuleContact, RuleAny}}

\* an account a caller gave a line, which no rule assigns
OwnAccount == 9

\* Every combination of the fields matches reads: contact 2 is not the
\* document's, product 2 has another category than wood
RuleSpace ==
    {[id |-> 1, priority |-> 1, is_active |-> a, transaction_type |-> t,
      match_contact |-> c, match_product |-> p, match_product_category |-> g,
      assign_analytic_account |-> 1] :
        a \in BOOLEAN, t \in {"customer_invoice", "vendor_bill"},
        c \in {0, 1, 2}, p \in {0, 1, 2}, g \in {"", "wood"}}

-----------------------------------------------------------------------------
(* State *)

\* What the last call was and how it ended: ok is whether it returned (for
\* matches, the value it returned); updated_lines and applied_rule_ids are
\* the AutoAnalyticsResult; rule and line are the arguments of matches;
\* report is the properties of a budget that were read; user is
\* request.user of a request that saves a budget; score is the health
\* metrics of a report; account, number and response are request.user, the
\* number in the URL and the response of a portal request; rows and the two
\* actual totals are those of a budget report
Last(op, ok) ==
    [op |-> op, ok |-> ok, updated_lines |-> 0, given |-> "none",
     applied_rule_ids |-> {}, rule |-> 0, line |-> 0, report |-> NoReport, user |-> 0,
     score |-> NoScore, account |-> AnonymousUser, number |-> "", response |-> "none",
     rows |-> {}, expense_actual_total |-> Zero, revenue_actual_total |-> Zero]

\* no writer has begun, and no Budget row is stored
NoOthers ==
    /\ writers = [w \in Writers |-> Idle]
    /\ budgets = NoBudgetRow
    /\ revisions = <<>>

Init ==
    /\ doc = NoDoc
    /\ lines = [l \in LineIds |-> NoLine]
    /\ payments = [p \in PayIds |-> NoPay]
    /\ inst = NoDoc
    /\ rules \in RuleSets
    /\ last = Last("init", TRUE)
    /\ NoOthers

DbNow == Db(doc, lines, payments)

SetDb(db) ==
    /\ doc' = db.doc
    /\ lines' = db.lines
    /\ payments' = db.pays

FreeLine == {l \in LineIds : ~lines[l].exists /\ \A k \in LineIds : k < l => lines[k].exists}
FreePay == {p \in PayIds : ~payments[p].exists /\ \A k \in PayIds : k < p => payments[k].exists}

Assign(old, new) == IF new = "keep" THEN old ELSE new

-----------------------------------------------------------------------------
(* Outcomes of an operation *)

\* The operation wrote db and left the caller's instance as d
Done(op, ok, db, d, n, g) ==
    /\ SetDb(db)
    /\ inst' = d
    /\ UNCHANGED others
    /\ last' = [Last(op, ok) EXCEPT !.updated_lines = n, !.given = g]

\* The operation raised before it wrote or assigned anything
Refused(op) ==
    /\ UNCHANGED others
    /\ last' = Last(op, FALSE)
    /\ UNCHANGED <<doc, lines, payments, inst>>

\* The outcome sv of a save made through the caller's instance
Saved(op, sv, g) == Done(op, sv.ok, sv.db, sv.document, 0, g)

\* whether the caller supplied a payment_status and due_date of its own
Given(inp) == IF inp.payment_status = "paid" /\ inp.due_date = "set" THEN "custom" ELSE "none"

-----------------------------------------------------------------------------
(* Operations on the document *)

\* the instance of a create: number is blank, and issue_date is the default
\* unless the caller supplies one
NewDoc(t, c, inp) ==
    [exists |-> TRUE, number |-> "", doc_type |-> t, contact |-> c,
     issue_date |-> IF "issue_date" \in DOMAIN inp THEN inp.issue_date ELSE Today,
     status |-> inp.status,
     posted_at |-> "null", due_date |-> inp.due_date,
     total_amount |-> inp.total_amount, paid_amount |-> Zero,
     payment_status |-> inp.payment_status]

\* the instance a create that raises leaves is not one of a stored row
Created(sv, g) ==
    Done("create", sv.ok, sv.db, IF sv.ok THEN sv.document ELSE inst, 0, g)

\* Document.objects.create(doc_type=t, contact=c, **inp)
CreateDoc(t, c, inp) ==
    /\ ~doc.exists
    /\ Created(DocSave(DbNow, NewDoc(t, c, inp)), Given(inp))
    /\ UNCHANGED rules

\* Document.objects.get(pk=...): the caller's instance is read again
LoadDoc ==
    /\ doc.exists
    /\ inst # doc
    /\ inst' = doc
    /\ UNCHANGED others
    /\ last' = Last("load", TRUE)
    /\ UNCHANGED <<doc, lines, payments, rules>>

\* The caller assigns fields of its instance and calls Document.save
SaveDoc(inp) ==
    /\ inst.exists
    /\ Saved("save",
             DocSave(DbNow, [inst EXCEPT !.status = Assign(@, inp.status),
                                         !.payment_status = Assign(@, inp.payment_status),
                                         !.due_date = Assign(@, inp.due_date)]),
             Given(inp))
    /\ UNCHANGED rules

\* The record of a call that returned; given is "again" when the call
\* before it was the same
Returned(op) ==
    [Last(op, TRUE) EXCEPT !.given = IF last.op = op THEN "again" ELSE "none"]

\* Document.recalculate_totals on the caller's instance: nothing is stored
RecalculateTotals ==
    /\ inst.exists
    /\ inst' = recalculate_totals(inst, lines, payments)
    /\ UNCHANGED others
    /\ last' = Returned("recalculate_totals")
    /\ UNCHANGED <<doc, lines, payments, rules>>

\* Document.objects.filter(pk=self.pk).update(total_amount=..., paid_amount=...,
\* payment_status=...) with the values of the instance d
UpdateRow(d) ==
    /\ inst' = d
    /\ doc' = [doc EXCEPT !.total_amount = d.total_amount,
                          !.paid_amount = d.paid_amount,
                          !.payment_status = d.payment_status]

\* Document.update_payment_status(save=True) on the caller's instance
UpdatePaymentStatus ==
    /\ inst.exists
    /\ UpdateRow(update_payment_status(inst, payments))
    /\ UNCHANGED others
    /\ last' = Returned("update_payment_status")
    /\ UNCHANGED <<lines, payments, rules>>

\* confirm and post after apply_auto_analytics returned ap: they raise when
\* it raised or a line has no cost center, and the writes of a call that
\* returned stay; otherwise the instance d is saved
Transition(op, ap, d) ==
    IF ~ap.ok THEN Refused(op)
    ELSE IF MissingCostCenter(ap.db.lines)
    THEN Done(op, FALSE, ap.db, inst, ap.updated_lines, "none")
    ELSE Done(op, DocSave(ap.db, d).ok, DocSave(ap.db, d).db, DocSave(ap.db, d).document,
              ap.updated_lines, "none")

\* self.status = CONFIRMED; self.save()
ConfirmWith(ap) == Transition("confirm", ap, [inst EXCEPT !.status = "confirmed"])

\* confirm without its check of the status
ConfirmAnyStatus ==
    /\ inst.exists
    /\ ConfirmWith(apply_auto_analytics(DbNow, rules, inst))
    /\ UNCHANGED rules

\* Document.confirm on the caller's instance
Confirm ==
    /\ inst.exists
    /\ IF inst.status # "draft" THEN Refused("confirm")
       ELSE ConfirmWith(apply_auto_analytics(DbNow, rules, inst))
    /\ UNCHANGED rules

\* post that saves without recalculate_totals
PostWithoutRecalculate(ap) ==
    Transition("post", ap, [inst EXCEPT !.status = "posted", !.posted_at = "set"])

\* self.status = POSTED; self.posted_at = now; self.recalculate_totals();
\* self.save()
PostWith(ap) ==
    Transition("post", ap,
               recalculate_totals([inst EXCEPT !.status = "posted", !.posted_at = "set"],
                                  ap.db.lines, ap.db.pays))

\* post without its check of the status
PostAnyStatus ==
    /\ inst.exists
    /\ IF inst.doc_type \notin FinancialTypes THEN Refused("post")
       ELSE PostWith(apply_auto_analytics(DbNow, rules, inst))
    /\ UNCHANGED rules

\* Document.post on the caller's instance
Post ==
    /\ inst.exists
    /\ IF inst.doc_type \notin FinancialTypes THEN Refused("post")
       ELSE IF inst.status \notin {"draft", "confirmed"} THEN Refused("post")
       ELSE PostWith(apply_auto_analytics(DbNow, rules, inst))
    /\ UNCHANGED rules

-----------------------------------------------------------------------------
(* Operations on the rules *)

\* What a call of apply_auto_analytics that ended as ap leaves; given is
\* "again" when the call before it was apply_auto_analytics as well
Applied(ap) ==
    /\ SetDb(ap.db)
    /\ inst' = inst
    /\ UNCHANGED others
    /\ last' = [Last("apply", ap.ok) EXCEPT !.updated_lines = ap.updated_lines,
                                            !.applied_rule_ids = ap.applied_rule_ids,
                                            !.given = IF last.op = "apply" /\ last.ok
                                                      THEN "again" ELSE "none"]

\* services.apply_auto_analytics(document=...) on the caller's instance
Apply ==
    /\ inst.exists
    /\ Applied(apply_auto_analytics(DbNow, rules, inst))
    /\ UNCHANGED rules

\* rule.matches(document=..., line=...) with the stored line l, or with
\* line=None when l is 0
Matches(rule, l) ==
    /\ inst.exists
    /\ rule \in rules
    /\ l # 0 => lines[l].exists
    /\ UNCHANGED others
    /\ last' = [Last("matches", matches(rule, inst, l # 0, IF l = 0 THEN NoLine ELSE lines[l]))
                   EXCEPT !.rule = rule.id, !.line = l]
    /\ UNCHANGED <<doc, lines, payments, inst, rules>>

-----------------------------------------------------------------------------
(* Operations on budgets *)

\* A caller reads actual_amount, variance, achievement_percent and
\* remaining_balance of budget b
ReadBudget(b) ==
    /\ UNCHANGED others
    /\ last' = [Last("budget", TRUE) EXCEPT !.report = Report(b, DbNow)]
    /\ UNCHANGED <<doc, lines, payments, inst, rules>>

\* GET of budget_report: the health metrics for the totals t of its queries
ReadScore(t) ==
    /\ last' = [Last("score", TRUE) EXCEPT !.score = Score(t)]
    /\ UNCHANGED <<doc, lines, payments, inst, rules, writers, budgets, revisions>>

\* GET of budget_report with the period of the budgets bs selected: the rows
\* and the two actual totals
ReadReport(bs) ==
    /\ last' = [Last("report", TRUE) EXCEPT
                   !.rows = ReportRows(bs, DbNow),
                   !.expense_actual_total = actual_total(bs, DbNow, "vendor_bill", SelectedPeriod),
                   !.revenue_actual_total = actual_total(bs, DbNow, "customer_invoice", SelectedPeriod)]
    /\ UNCHANGED <<doc, lines, payments, inst, rules, writers, budgets, revisions>>

-----------------------------------------------------------------------------
(* Operations on lines *)

\* whether the caller assigned a line_total of its own
GivenTotal(inp) == IF "line_total" \in DOMAIN inp THEN "custom" ELSE "none"

\* what the caller assigned: a negative quantity or unit_price, or else
\* whether it assigned a line_total
GivenLine(inp) ==
    IF inp.quantity < 0 \/ inp.unit_price.hi < 0 THEN "negative" ELSE GivenTotal(inp)

NewLine(inp, prod, acct) ==
    [exists |-> TRUE, product |-> prod, quantity |-> inp.quantity,
     unit_price |-> inp.unit_price,
     line_total |-> IF "line_total" \in DOMAIN inp THEN inp.line_total ELSE Zero,
     analytic_account |-> acct]

\* DocumentLine.objects.create(document=..., **fields)
LineAdd(inp, prod, acct, viaInst) ==
    /\ doc.exists
    /\ viaInst => inst.exists
    /\ \E l \in FreeLine :
         Saved("line_add", LineSave(DbNow, l, NewLine(inp, prod, acct), inst, viaInst),
               GivenLine(inp))
    /\ UNCHANGED rules

\* The stored line l is read, its quantity and unit_price (and a line_total,
\* if the caller has one) are assigned, and DocumentLine.save is called
LineEdit(l, inp, viaInst) ==
    /\ lines[l].exists
    /\ viaInst => inst.exists
    /\ Saved("line_edit",
             LineSave(DbNow, l,
                      [lines[l] EXCEPT !.quantity = inp.quantity,
                                       !.unit_price = inp.unit_price,
                                       !.line_total = IF "line_total" \in DOMAIN inp
                                                      THEN inp.line_total ELSE @],
                      inst, viaInst),
             GivenLine(inp))
    /\ UNCHANGED rules

\* with transaction.atomic(): the rows db of save_related, then
\* doc.recalculate_totals(); doc.save() on the stored document; a save that
\* raises rolls the block back
SaveRelated(op, db, sv) ==
    Done(op, sv.ok, IF sv.ok THEN sv.db ELSE DbNow, inst, 0, "none")

\* DocumentAdmin.save_related with line l marked for deletion in the inline
LineRemove(l) ==
    /\ lines[l].exists
    /\ SaveRelated("line_remove", [DbNow EXCEPT !.lines[l] = NoLine],
                   Cascade([DbNow EXCEPT !.lines[l] = NoLine], inst, FALSE))
    /\ UNCHANGED rules

-----------------------------------------------------------------------------
(* Operations on payments *)

\* whether the amount the caller assigned is zero or negative
GivenAmount(amt) == IF ALeq(amt, Zero) THEN "non_positive" ELSE "none"

\* full_clean without the check of the amount's sign
PaymentCleanAnyAmount(r, d) ==
    /\ is_financial(d)
    /\ r.amount.hi < 10 ^ (MaxDigits - MaxDigits \div 2)

\* Payment.full_clean passes, for a payment r of the document instance d
PaymentFullCleanOk(r, d) ==
    /\ is_financial(d)
    /\ ~ALeq(r.amount, Zero)
    /\ DecimalFieldValid(r.amount, MaxDigits)

\* Payment.save of the instance r as row p; its document attribute is the
\* instance d when viaInst, and is otherwise loaded from the stored row.
\* No transaction: the payment row stays written when the document's save
\* raises.
PaymentSave(db, p, r, d, viaInst) ==
    IF ~PaymentFullCleanOk(r, IF viaInst THEN d ELSE db.doc)
    THEN [db |-> db, document |-> d, ok |-> FALSE]
    ELSE Cascade([db EXCEPT !.pays[p] = r], d, viaInst)

\* Payment.objects.create(document=..., amount=amt, status=st)
PayAdd(amt, st, viaInst) ==
    /\ doc.exists
    /\ viaInst => inst.exists
    /\ \E p \in FreePay :
         Saved("pay_add",
               PaymentSave(DbNow, p, [exists |-> TRUE, amount |-> amt, status |-> st],
                           inst, viaInst),
               GivenAmount(amt))
    /\ UNCHANGED rules

\* The stored payment p is read, its amount and status are assigned, and
\* Payment.save is called
PayEdit(p, amt, st, viaInst) ==
    /\ payments[p].exists
    /\ viaInst => inst.exists
    /\ Saved("pay_edit",
             PaymentSave(DbNow, p, [payments[p] EXCEPT !.amount = amt, !.status = st],
                         inst, viaInst),
             GivenAmount(amt))
    /\ UNCHANGED rules

\* PaymentAdmin's delete view: Payment.delete, which the model does not
\* override, so the document is not recalculated
PayDelete(p) ==
    /\ payments[p].exists
    /\ payments' = [payments EXCEPT ![p] = NoPay]
    /\ UNCHANGED others
    /\ last' = Last("pay_delete", TRUE)
    /\ UNCHANGED <<doc, lines, inst, rules>>

\* DocumentAdmin.save_related with payment p marked for deletion in the inline
PayRemove(p) ==
    /\ payments[p].exists
    /\ SaveRelated("pay_remove", [DbNow EXCEPT !.pays[p] = NoPay],
                   Cascade([DbNow EXCEPT !.pays[p] = NoPay], inst, FALSE))
    /\ UNCHANGED rules

-----------------------------------------------------------------------------
(* Requests of the portal *)

\* The response of a portal request by u for the document numbered number
Responded(op, u, number, response) ==
    last' = [Last(op, response \in {"ok", "redirect", "paid"}) EXCEPT
                 !.account = u, !.number = number, !.response = response]

\* portal_document_detail and portal_document_pdf: the page, or the file
PortalRead(op, u, number) ==
    /\ Responded(op, u, number, PortalAccess(u, doc, number))
    /\ UNCHANGED <<doc, lines, payments, inst, rules, writers, budgets, revisions>>

\* portal_pay_document answers without a payment
PortalNoPayment(u, number, response) ==
    /\ Responded("portal_pay", u, number, response)
    /\ UNCHANGED <<doc, lines, payments, inst, rules, writers, budgets, revisions>>

\* portal_pay_document: a GET shows the form; a POST of amt creates a posted
\* payment of the document the view loaded unless the form is invalid or amt
\* is above the remaining balance ("error" is a save that raised)
PortalPay(u, number, post, amt) ==
    IF PortalAccess(u, doc, number) # "ok"
    THEN PortalNoPayment(u, number, PortalAccess(u, doc, number))
    ELSE IF doc.doc_type # "customer_invoice" THEN PortalNoPayment(u, number, "not_found")
    ELSE IF doc.payment_status = "paid" THEN PortalNoPayment(u, number, "redirect")
    ELSE IF ~post \/ ALt(amt, Amt(0, 1)) \/ ~DecimalFieldValid(amt, MaxDigits)
              \/ ALt(ASub(doc.total_amount, doc.paid_amount), amt)
    THEN PortalNoPayment(u, number, "ok")
    ELSE /\ \E p \in FreePay :
              /\ SetDb(PaymentSave(DbNow, p, [exists |-> TRUE, amount |-> amt, status |-> "posted"],
                                   doc, TRUE).db)
              /\ Responded("portal_pay", u, number,
                           IF PaymentSave(DbNow, p,
                                          [exists |-> TRUE, amount |-> amt, status |-> "posted"],
                                          doc, TRUE).ok
                           THEN "paid" ELSE "error")
         /\ UNCHANGED <<inst, rules, writers, budgets, revisions>>

-----------------------------------------------------------------------------
(* Operations that save a budget *)

\* A budget and its revisions
Revised(b, revs) == [budget |-> b, revisions |-> revs]

\* Budget.objects.get_or_create(..., defaults={"amount": amt}) and, for a
\* budget that was there with another amount, the update and the revision
QuickBudget(b, revs, amt, user) ==
    IF ~b.exists THEN Revised([exists |-> TRUE, amount |-> amt], revs)
    ELSE IF b.amount # amt
    THEN Revised([b EXCEPT !.amount = amt], Append(revs, Revision(amt, user)))
    ELSE Revised(b, revs)

\* doc.post() of the quick entry, apply_auto_analytics having returned ap
QuickPosted(ap, d) ==
    IF ~ap.ok \/ MissingCostCenter(ap.db.lines) THEN [db |-> ap.db, ok |-> FALSE]
    ELSE [db |-> DocSave(ap.db, recalculate_totals([d EXCEPT !.status = "posted",
                                                             !.posted_at = "set"],
                                                   ap.db.lines, ap.db.pays)).db,
          ok |-> DocSave(ap.db, recalculate_totals([d EXCEPT !.status = "posted",
                                                             !.posted_at = "set"],
                                                   ap.db.lines, ap.db.pays)).ok]

\* the line of the quick entry was saved as ln
QuickPost(ln, rs) ==
    IF ~ln.ok THEN [db |-> ln.db, ok |-> FALSE]
    ELSE QuickPosted(apply_auto_analytics(ln.db, rs, ln.document), ln.document)

\* DocumentLine.objects.create(document=doc, quantity=1.00, unit_price=actual,
\* analytic_account=analytic), the document having been saved as sv
QuickLine(sv, rs, actual) ==
    IF ~sv.ok THEN [db |-> sv.db, ok |-> FALSE]
    ELSE QuickPost(LineSave(sv.db, 1, NewLine([quantity |-> 100, unit_price |-> actual], 0, 1),
                            sv.document, TRUE),
                   rs)

\* The vendor bill of a quick entry with an actual amount: created with the
\* period's start as issue_date and a due_date, its line, and post
QuickDoc(db, rs, actual) ==
    QuickLine(DocSave(db, NewDoc("vendor_bill", DemoVendor,
                                 [status |-> "draft", payment_status |-> "na",
                                  due_date |-> "set", total_amount |-> Zero,
                                  issue_date |-> PeriodStart])),
              rs, actual)

\* with transaction.atomic(): the budget and the revision rv, and the rows qd
\* of the document, are committed together or not at all
QuickCommit(rv, qd, user) ==
    /\ budgets' = (IF qd.ok THEN rv.budget ELSE budgets)
    /\ revisions' = (IF qd.ok THEN rv.revisions ELSE revisions)
    /\ SetDb(IF qd.ok THEN qd.db ELSE DbNow)
    /\ last' = [Last("quick_entry", qd.ok) EXCEPT !.user = user]

\* POST of the quick entry form of budget_report by the staff user: amt is
\* budget_amount, actual is actual_amount (Zero when left out).  The model
\* holds one document, so an entry with an actual amount needs none stored.
QuickEntry(amt, user, actual) ==
    /\ Len(revisions) < MaxRevisions
    /\ actual # Zero => ~doc.exists
    /\ QuickCommit(QuickBudget(budgets, revisions, amt, user),
                   IF actual = Zero THEN [db |-> DbNow, ok |-> TRUE]
                   ELSE QuickDoc(DbNow, rules, actual),
                   user)
    /\ UNCHANGED <<inst, rules, writers>>

\* BudgetAdmin.save_model: the stored amount is read for a change, the budget
\* is saved, and a revision is created when the amount differs
save_model(b, revs, amt, user, change) ==
    IF change /\ b.exists /\ b.amount # amt
    THEN Revised([exists |-> TRUE, amount |-> amt], Append(revs, Revision(amt, user)))
    ELSE Revised([exists |-> TRUE, amount |-> amt], revs)

\* save_related of BudgetRevisionInline: the rows the form showed (those of
\* shown) can be edited, rows can be added, none can be deleted
SaveInline(revs, shown, inline) ==
    IF inline.kind = "edit" /\ inline.row \in 1..shown
    THEN [revs EXCEPT ![inline.row] = Revision(inline.amount, inline.by)]
    ELSE IF inline.kind = "add"
    THEN Append(revs, Revision(inline.amount, inline.by))
    ELSE revs

\* The add or change form of BudgetAdmin is submitted by user with amount
\* amt and the inline rows inline; the change form is that of the stored row
AdminSaveBudget(amt, user, inline) ==
    /\ Len(revisions) + 1 < MaxRevisions
    /\ budgets' = save_model(budgets, revisions, amt, user, budgets.exists).budget
    /\ revisions' = SaveInline(save_model(budgets, revisions, amt, user, budgets.exists).revisions,
                               Len(revisions), inline)
    /\ last' = [Last(IF budgets.exists THEN "admin_change" ELSE "admin_add", TRUE)
                  EXCEPT !.user = user]
    /\ UNCHANGED <<doc, lines, payments, inst, rules, writers>>

-----------------------------------------------------------------------------
(* Two requests that save a line or a payment of the same document.  The
   connection is in autocommit: every statement of DocumentLine.save and
   Payment.save is committed on its own, and no row is locked. *)

SetWriter(w, pc, d) ==
    writers' = [writers EXCEPT ![w] = [pc |-> pc, kind |-> writers[w].kind, document |-> d]]

\* The request reads the document and builds the line or payment to save
BeginSave(w, kind) ==
    /\ doc.exists
    /\ writers[w].pc = "idle"
    /\ writers' = [writers EXCEPT ![w] = [pc |-> "loaded", kind |-> kind, document |-> doc]]
    /\ UNCHANGED <<doc, lines, payments, inst, rules, last, budgets, revisions>>

\* self.full_clean(); super().save(): the row of a line of 5.50, or of a
\* posted payment of 5.50, is written; a payment of an order raises
WriteRow(w) ==
    /\ writers[w].pc = "loaded"
    /\ IF writers[w].kind = "line"
       THEN /\ \E l \in FreeLine :
                 lines' = [lines EXCEPT ![l] = WithLineTotal(NewLine(PlainLine, 0, 1))]
            /\ SetWriter(w, "written", writers[w].document)
            /\ UNCHANGED payments
       ELSE IF ~PaymentFullCleanOk([exists |-> TRUE, amount |-> Price550, status |-> "posted"],
                                   writers[w].document)
       THEN /\ SetWriter(w, "raised", writers[w].document)
            /\ UNCHANGED <<lines, payments>>
       ELSE /\ \E p \in FreePay :
                 payments' = [payments EXCEPT
                                 ![p] = [exists |-> TRUE, amount |-> Price550, status |-> "posted"]]
            /\ SetWriter(w, "written", writers[w].document)
            /\ UNCHANGED lines
    /\ UNCHANGED <<doc, inst, rules, last, budgets, revisions>>

\* portal_pay_document up to its call of Payment.objects.create, for a POST
\* of 5.50 by u: the document is loaded, and the payment goes on to be saved
\* when the document is an invoice that is not paid and 5.50 is not above
\* total_amount - paid_amount of the loaded document
PortalPost(w, u, number) ==
    /\ writers[w].pc = "idle"
    /\ PortalAccess(u, doc, number) = "ok"
    /\ doc.doc_type = "customer_invoice"
    /\ doc.payment_status # "paid"
    /\ ~ALt(ASub(doc.total_amount, doc.paid_amount), Price550)
    /\ writers' = [writers EXCEPT ![w] = [pc |-> "loaded", kind |-> "payment", document |-> doc]]
    /\ UNCHANGED <<doc, lines, payments, inst, rules, last, budgets, revisions>>

\* recalculate_totals: the aggregate over the lines is read and assigned
ReadLines(w) ==
    /\ writers[w].pc = "written"
    /\ SetWriter(w, "summed", [writers[w].document EXCEPT !.total_amount = SumLineTotals(lines)])
    /\ UNCHANGED <<doc, lines, payments, inst, rules, last, budgets, revisions>>

\* update_payment_status(save=False): the aggregate over the posted payments
\* is read, and paid_amount and payment_status are assigned
ReadPayments(w) ==
    /\ writers[w].pc = "summed"
    /\ SetWriter(w, "recalculated", update_payment_status(writers[w].document, payments))
    /\ UNCHANGED <<doc, lines, payments, inst, rules, last, budgets, revisions>>

\* self.document.save(): the whole row is written from the instance
SaveDocument(w) ==
    /\ writers[w].pc = "recalculated"
    /\ SetDb(DocSave(DbNow, writers[w].document).db)
    /\ SetWriter(w, "done", DocSave(DbNow, writers[w].document).document)
    /\ UNCHANGED <<inst, rules, last, budgets, revisions>>

\* The request has answered; another one can come
EndRequest(w) ==
    /\ writers[w].pc = "done"
    /\ SetWriter(w, "idle", NoDoc)
    /\ UNCHANGED <<doc, lines, payments, inst, rules, last, budgets, revisions>>

-----------------------------------------------------------------------------
(* Specifications.  Each draws the inputs of the shared operations from its
   own sets; every operation goes through the instance the caller holds, as
   the callers of the repository do. *)

\* Rules and transitions over lines with and without product and account
Next ==
    \/ \E t \in DocTypes, c \in Contacts : CreateDoc(t, c, DefaultInput)
    \/ LoadDoc
    \/ Confirm
    \/ Post
    \/ \E prod \in Products, acct \in Accounts : LineAdd(PlainLine, prod, acct, TRUE)
    \/ \E l \in LineIds : LineRemove(l)

Spec == Init /\ [][Next]_vars

InitDoc ==
    /\ doc = NoDoc
    /\ lines = [l \in LineIds |-> NoLine]
    /\ payments = [p \in PayIds |-> NoPay]
    /\ inst = NoDoc
    /\ rules = {}
    /\ last = Last("init", TRUE)
    /\ NoOthers

\* Competing rules over lines with and without product, without account and
\* with an account of their own
InitRule ==
    /\ doc = NoDoc
    /\ lines = [l \in LineIds |-> NoLine]
    /\ payments = [p \in PayIds |-> NoPay]
    /\ inst = NoDoc
    /\ rules \in CompetingRuleSets
    /\ last = Last("init", TRUE)
    /\ NoOthers

NextRule ==
    \/ \E t \in DocTypes, c \in Contacts : CreateDoc(t, c, DefaultInput)
    \/ Apply
    \/ Confirm
    \/ Post
    \/ \E prod \in Products, acct \in {0, OwnAccount} : LineAdd(PlainLine, prod, acct, TRUE)

SpecRule == InitRule /\ [][NextRule]_vars

\* One rule of every shape against documents and lines of every product
InitMatch ==
    /\ doc = NoDoc
    /\ lines = [l \in LineIds |-> NoLine]
    /\ payments = [p \in PayIds |-> NoPay]
    /\ inst = NoDoc
    /\ rules \in {{r} : r \in RuleSpace}
    /\ last = Last("init", TRUE)
    /\ NoOthers

NextMatch ==
    \/ \E t \in DocTypes, c \in Contacts : CreateDoc(t, c, DefaultInput)
    \/ \E prod \in {0, 1, 2} : LineAdd(PlainLine, prod, 0, TRUE)
    \/ \E r \in RuleSpace, l \in 0..MaxLines : Matches(r, l)

SpecMatch == InitMatch /\ [][NextMatch]_vars

\* Budgets read against documents of every type, status and date
NextBudget ==
    \/ \E t \in DocTypes, c \in Contacts, inp \in DatedInputs : CreateDoc(t, c, inp)
    \/ LoadDoc
    \/ \E inp \in SaveInputs : SaveDoc(inp)
    \/ Confirm
    \/ Post
    \/ \E acct \in {1, OwnAccount} : LineAdd(PlainLine, 0, acct, TRUE)
    \/ \E b \in Budgets : ReadBudget(b)

SpecBudget == InitDoc /\ [][NextBudget]_vars

\* Recalculations against lines and payments, some removed behind the
\* document's back
NextRecalc ==
    \/ \E t \in DocTypes, c \in Contacts, inp \in {DefaultInput, DueInput} : CreateDoc(t, c, inp)
    \/ LoadDoc
    \/ RecalculateTotals
    \/ UpdatePaymentStatus
    \/ LineAdd(PlainLine, 0, 1, TRUE)
    \/ \E st \in PayStatuses, viaInst \in BOOLEAN :
         PayAdd(Price550, st, viaInst)
    \/ \E p \in PayIds : PayDelete(p)

SpecRecalc == InitDoc /\ [][NextRecalc]_vars

\* Every operation that stores a payment_status, on documents of every type
NextStatus ==
    \/ \E t \in DocTypes, c \in Contacts, inp \in {DefaultInput, DueInput} : CreateDoc(t, c, inp)
    \/ LoadDoc
    \/ \E inp \in {NaInput, KeepInput} : SaveDoc(inp)
    \/ RecalculateTotals
    \/ UpdatePaymentStatus
    \/ LineAdd(PlainLine, 0, 1, TRUE)
    \/ \E viaInst \in BOOLEAN : PayAdd(Price550, "posted", viaInst)

SpecStatus == InitDoc /\ [][NextStatus]_vars

\* Portal requests for a document of any type and contact
NextPortal ==
    \/ \E t \in DocTypes, c \in PortalContacts : CreateDoc(t, c, DefaultInput)
    \/ LineAdd(DoubleLine, 0, 1, TRUE)
    \/ \E u \in PortalAccounts, n \in Numbers : PortalRead("portal_detail", u, n)
    \/ \E u \in PortalAccounts, n \in Numbers : PortalRead("portal_pdf", u, n)
    \/ \E u \in PortalAccounts, n \in Numbers, post \in BOOLEAN, amt \in PayAmounts :
         PortalPay(u, n, post, amt)

SpecPortal == InitDoc /\ [][NextPortal]_vars

\* Reports over totals of every kind
NextScore ==
    \E t \in ScoreTotals : ReadScore(t)

SpecScore == InitDoc /\ [][NextScore]_vars

\* Transitions through the caller's instance while requests that read the
\* document earlier save a line or a payment of it
NextForward ==
    \/ \E t \in DocTypes, c \in Contacts : CreateDoc(t, c, DefaultInput)
    \/ LoadDoc
    \/ Confirm
    \/ Post
    \/ \E w \in Writers, kind \in {"line", "payment"} : BeginSave(w, kind)
    \/ \E w \in Writers : WriteRow(w)
    \/ \E w \in Writers : ReadLines(w)
    \/ \E w \in Writers : ReadPayments(w)
    \/ \E w \in Writers : SaveDocument(w)

SpecForward == InitDoc /\ [][NextForward]_vars

\* confirm on the caller's instance, with lines and payments saved through
\* it and through copies of the document read for the save
NextConfirm ==
    \/ \E t \in DocTypes, c \in Contacts : CreateDoc(t, c, DefaultInput)
    \/ LoadDoc
    \/ Confirm
    \/ \E prod \in Products, acct \in Accounts, viaInst \in BOOLEAN :
         LineAdd(PlainLine, prod, acct, viaInst)
    \/ PayAdd(Price550, "posted", FALSE)

SpecConfirm == Init /\ [][NextConfirm]_vars

\* The lines of the invoice are entered before any payment request
InvoiceLine ==
    /\ \A p \in PayIds : ~payments[p].exists
    /\ \A w \in Writers : writers[w].pc = "idle"
    /\ LineAdd(PlainLine, 0, 1, TRUE)

\* Two portal requests that pay 5.50 of an invoice of 5.50 or of 11.00
NextPortalRace ==
    \/ \E t \in DocTypes, c \in Contacts : CreateDoc(t, c, DefaultInput)
    \/ InvoiceLine
    \/ \E w \in Writers : PortalPost(w, Account(TRUE, FALSE, 1), "set")
    \/ \E w \in Writers : WriteRow(w)
    \/ \E w \in Writers : ReadLines(w)
    \/ \E w \in Writers : ReadPayments(w)
    \/ \E w \in Writers : SaveDocument(w)
    \/ \E w \in Writers : EndRequest(w)

SpecPortalRace == InitDoc /\ [][NextPortalRace]_vars

\* Reports over bills and invoices with lines on cost centers 1 and 2
NextReport ==
    \/ \E t \in DocTypes, c \in Contacts, inp \in DatedInputs : CreateDoc(t, c, inp)
    \/ Post
    \/ \E acct \in {1, 2} : LineAdd(PlainLine, 0, acct, TRUE)
    \/ \E bs \in ListedBudgets : ReadReport(bs)

SpecReport == InitDoc /\ [][NextReport]_vars

\* Budgets saved through the quick entry and through the admin
NextRevision ==
    \/ \E amt \in BudgetAmounts, user \in Users, actual \in ActualAmounts :
         QuickEntry(amt, user, actual)
    \/ \E amt \in BudgetAmounts, user \in Users, inline \in InlineInputs :
         AdminSaveBudget(amt, user, inline)

SpecRevision == InitDoc /\ [][NextRevision]_vars

\* Two requests, each saving one line or one payment, in every interleaving
\* of their statements
NextRace ==
    \/ \E t \in DocTypes, c \in Contacts : CreateDoc(t, c, DefaultInput)
    \/ \E w \in Writers, kind \in {"line", "payment"} : BeginSave(w, kind)
    \/ \E w \in Writers : WriteRow(w)
    \/ \E w \in Writers : ReadLines(w)
    \/ \E w \in Writers : ReadPayments(w)
    \/ \E w \in Writers : SaveDocument(w)

SpecRace == InitDoc /\ [][NextRace]_vars

\* Payments of every amount saved against documents of every type
NextPayment ==
    \/ \E t \in DocTypes, c \in Contacts : CreateDoc(t, c, DefaultInput)
    \/ LineAdd(DoubleLine, 0, 1, TRUE)
    \/ \E amt \in PayAmounts : PayAdd(amt, "posted", TRUE)
    \/ \E p \in PayIds, amt \in PayAmounts, st \in {"posted", "cancelled"} :
         PayEdit(p, amt, st, TRUE)

SpecPayment == InitDoc /\ [][NextPayment]_vars

\* Lines saved with products that need rounding and with a line_total of the
\* caller's
NextTotal ==
    \/ \E t \in DocTypes, c \in Contacts : CreateDoc(t, c, DefaultInput)
    \/ \E inp \in TotalInputs : LineAdd(inp, 0, 1, TRUE)
    \/ \E l \in LineIds, inp \in TotalInputs : LineEdit(l, inp, TRUE)

SpecTotal == InitDoc /\ [][NextTotal]_vars

\* Lines of every size, those clean rejects and those the total cannot hold;
\* the lines have a product and get their account from the rules
NextLine ==
    \/ \E t \in DocTypes, c \in Contacts : CreateDoc(t, c, DefaultInput)
    \/ LoadDoc
    \/ Confirm
    \/ \E inp \in LineInputs : LineAdd(inp, 1, 0, TRUE)
    \/ \E l \in LineIds, inp \in LineInputs : LineEdit(l, inp, TRUE)
    \/ \E l \in LineIds : LineRemove(l)

SpecLine == Init /\ [][NextLine]_vars

\* The document's own fields: what the caller supplies, clean, transitions
NextDoc ==
    \/ \E t \in DocTypes, c \in Contacts, inp \in CreateInputs : CreateDoc(t, c, inp)
    \/ LoadDoc
    \/ \E inp \in SaveInputs : SaveDoc(inp)
    \/ RecalculateTotals
    \/ UpdatePaymentStatus
    \/ Confirm
    \/ Post
    \/ \E acct \in Accounts : LineAdd(PlainLine, 0, acct, TRUE)
    \/ \E l \in LineIds : LineRemove(l)

SpecDoc == InitDoc /\ [][NextDoc]_vars

\* Payments against lines of 11.00 with an account
NextPay ==
    \/ \E t \in DocTypes, c \in Contacts : CreateDoc(t, c, DefaultInput)
    \/ LoadDoc
    \/ Post
    \/ LineAdd(DoubleLine, 0, 1, TRUE)
    \/ \E amt \in PayAmounts, st \in PayStatuses : PayAdd(amt, st, TRUE)
    \/ \E p \in PayIds, amt \in PayAmounts, st \in PayStatuses : PayEdit(p, amt, st, TRUE)
    \/ \E p \in PayIds : PayDelete(p)
    \/ \E p \in PayIds : PayRemove(p)

SpecPay == InitDoc /\ [][NextPay]_vars

-----
(* Claims *)

LineOps == {"line_add", "line_edit", "line_remove"}
Cascading == {"line_add", "line_edit", "line_remove", "pay_add", "pay_edit", "pay_remove", "post"}

\* the sums a claim speaks of, over the stored rows
StoredLineTotal ==
    SumAmt([l \in LineIds |-> IF lines[l].exists THEN lines[l].line_total ELSE Zero], LineIds)
StoredPostedTotal ==
    SumAmt([p \in PayIds |->
              IF payments[p].exists /\ payments[p].status = "posted"
              THEN payments[p].amount ELSE Zero], PayIds)

\* C1: once a line was added, edited or removed and the operation has
\* completed, the stored total_amount is the sum of the line_total of the
\* lines the document has.
C1_TotalIsLineSum ==
    (last.op \in LineOps /\ last.ok) => doc.total_amount = StoredLineTotal

\* C1 witness: an edit completed on a document with two lines of different
\* size, and the total is their sum
C1_Witness ==
    /\ last.op = "line_edit" /\ last.ok
    /\ \A l \in LineIds : l <= 2 => lines[l].exists
    /\ lines[1].line_total # lines[2].line_total
    /\ doc.total_amount = AAdd(lines[1].line_total, lines[2].line_total)
    /\ doc.total_amount # Zero

\* C2: on a financial document the stored paid_amount is the sum of the
\* amounts of its posted payments after every sequence of payment
\* operations, removals included.
C2_PaidIsPostedSum ==
    (doc.exists /\ doc.doc_type \in {"vendor_bill", "customer_invoice"})
        => doc.paid_amount = StoredPostedTotal

\* a + 0.0001 < b for amounts of two places, in ten-thousandths
BelowByEps(a, b) ==
    \/ a.hi < b.hi
    \/ a.hi = b.hi /\ a.lo * 100 + 1 < b.lo * 100
Positive(a) == a.hi > 0 \/ (a.hi = 0 /\ a.lo > 0)

\* C3: after a recalculation of a financial document, payment_status is paid
\* exactly when total_amount > 0 and paid_amount >= total_amount - 0.0001,
\* partially_paid exactly when 0 < paid_amount < total_amount - 0.0001, and
\* not_paid otherwise.
C3_PaymentStatus ==
    (last.op \in Cascading /\ last.ok /\ doc.doc_type \in {"vendor_bill", "customer_invoice"})
        => /\ doc.payment_status = "paid"
                <=> (Positive(doc.total_amount)
                     /\ ~BelowByEps(doc.paid_amount, doc.total_amount))
           /\ doc.payment_status = "partially_paid"
                <=> (Positive(doc.paid_amount)
                     /\ BelowByEps(doc.paid_amount, doc.total_amount))
           /\ doc.payment_status \in {"paid", "partially_paid", "not_paid"}

\* C3 witness: a payment operation left the posted payments equal to the
\* total of the lines, and the document is paid
C3_Witness ==
    /\ last.op \in {"pay_add", "pay_edit"} /\ last.ok
    /\ doc.doc_type = "customer_invoice"
    /\ Positive(doc.total_amount)
    /\ doc.paid_amount = doc.total_amount
    /\ doc.payment_status = "paid"

\* C4: a stored purchase order or sales order has payment_status
\* not_applicable and no due_date in every state that create, save, a line's
\* save, confirm or a recalculation reaches, whatever the caller supplied.
C4_NonFinancialFields ==
    (doc.exists /\ doc.doc_type \in {"po", "so"})
        => doc.payment_status = "na" /\ doc.due_date = "null"

\* C4 witness: the caller saved a purchase order or sales order to which it
\* had assigned payment_status paid and a due_date, and neither is stored
C4_Witness ==
    /\ last.op \in {"create", "save"} /\ last.ok /\ last.given = "custom"
    /\ doc.exists /\ doc.doc_type \in {"po", "so"}
    /\ doc.payment_status = "na" /\ doc.due_date = "null"

\* C5: confirm succeeds only on a document whose status is draft; on a
\* confirmed, posted or cancelled document it fails and the stored status
\* stays; when it succeeds the stored status is confirmed.
C5_ConfirmFromDraft ==
    [][last'.op = "confirm"
         => /\ last'.ok => (inst.status = "draft" /\ doc'.status = "confirmed")
            /\ inst.status \in {"confirmed", "posted", "cancelled"}
                 => (~last'.ok /\ doc'.status = doc.status)]_vars

\* C5 witness: confirm failed on a posted document, which is still posted
C5_Witness ==
    /\ last.op = "confirm" /\ ~last.ok
    /\ inst.status = "posted" /\ doc.status = "posted"

\* C6: post succeeds only on a vendor bill or customer invoice whose status
\* is draft or confirmed; on a purchase order or sales order, or on a posted
\* or cancelled document, it fails and the stored status, posted_at, totals
\* and lines stay.
C6_PostGuards ==
    [][last'.op = "post"
         => /\ last'.ok => (inst.doc_type \in {"vendor_bill", "customer_invoice"}
                            /\ inst.status \in {"draft", "confirmed"})
            /\ (inst.doc_type \in {"po", "so"} \/ inst.status \in {"posted", "cancelled"})
                 => (~last'.ok /\ doc' = doc /\ lines' = lines)]_vars

\* C6 witness: post failed on a purchase order that has a line
C6_Witness ==
    /\ last.op = "post" /\ ~last.ok
    /\ doc.doc_type = "po" /\ doc.status = "draft" /\ doc.posted_at = "null"
    /\ lines[1].exists /\ doc.total_amount = lines[1].line_total

\* C7: confirm and post run the rules and then check the lines: when a line
\* has no analytical account after the run the transition fails and the
\* stored status stays, and when the transition succeeds every line has one.
C7_CostCentersComplete ==
    [][last'.op \in {"confirm", "post"}
         => /\ (\E l \in LineIds : lines'[l].exists /\ lines'[l].analytic_account = 0)
                 => (~last'.ok /\ doc'.status = doc.status)
            /\ last'.ok
                 => \A l \in LineIds : lines'[l].exists => lines'[l].analytic_account # 0]_vars

\* C7 witness: confirm succeeded after the rules gave a line its account
C7_Witness ==
    /\ last.op = "confirm" /\ last.ok /\ last.updated_lines > 0
    /\ doc.status = "confirmed"
    /\ \E l \in LineIds : lines[l].exists
    /\ \A l \in LineIds : lines[l].exists => lines[l].analytic_account # 0

\* C8: after a successful post the stored document is posted, has a posting
\* timestamp, a total_amount that is the sum of its lines, a paid_amount that
\* is the sum of its posted payments, and the payment_status of the two.
C8_PostedDocument ==
    (last.op = "post" /\ last.ok)
        => /\ doc.status = "posted"
           /\ doc.posted_at # "null"
           /\ doc.total_amount = StoredLineTotal
           /\ doc.paid_amount = StoredPostedTotal
           /\ doc.payment_status =
                IF ~Positive(doc.total_amount) \/ ~Positive(doc.paid_amount) THEN "not_paid"
                ELSE IF BelowByEps(doc.paid_amount, doc.total_amount) THEN "partially_paid"
                ELSE "paid"

\* C8 witness: a document with lines and a posted payment below their total
\* was posted
C8_Witness ==
    /\ last.op = "post" /\ last.ok
    /\ doc.status = "posted"
    /\ Positive(doc.paid_amount)
    /\ doc.payment_status = "partially_paid"

\* C9: when confirm or post fails, the stored document and all its lines,
\* the analytical account of every line included, are what they were before
\* the call.
C9_FailureAppliesNothing ==
    [][(last'.op \in {"confirm", "post"} /\ ~last'.ok)
         => (doc' = doc /\ lines' = lines)]_vars

\* C10: when the save of a line fails, neither the line nor any field of the
\* document is stored, so no stored line_total is missing from total_amount.
C10_LineSaveAtomic ==
    [][(last'.op \in {"line_add", "line_edit"} /\ ~last'.ok)
         => (doc' = doc /\ lines' = lines)]_vars

\* The match predicate as the claims state it: rule r holds for document d
\* and line ln, or for d alone when hasLine is FALSE
MatchPredicate(r, d, hasLine, ln) ==
    /\ r.is_active
    /\ r.transaction_type = d.doc_type
    /\ r.match_contact # 0 => r.match_contact = d.contact
    /\ \/ ~hasLine /\ r.match_product = 0 /\ r.match_product_category = ""
       \/ /\ hasLine
          /\ r.match_product # 0 => r.match_product = ln.product
          /\ r.match_product_category # ""
               => (ln.product # 0 /\ ProductCategory(ln.product) = r.match_product_category)

\* r is the first of the rules M in (priority ascending, id ascending) order
FirstInOrder(r, M) ==
    /\ r \in M
    /\ \A q \in M : q = r \/ r.priority < q.priority
                          \/ (r.priority = q.priority /\ r.id < q.id)

LineMatching(l) == {r \in rules : MatchPredicate(r, inst, TRUE, lines[l])}
DocMatching == {r \in rules : MatchPredicate(r, inst, FALSE, NoLine)}
Unassigned(l) == lines[l].exists /\ lines[l].analytic_account = 0

\* C11: apply_auto_analytics gives each line without account the account of
\* the first rule, in (priority, id) order over the active rules of the
\* document's type, whose line predicate holds, even when a later rule
\* holds too; a line for which none holds stays without account.  The
\* assignment is a function of the rules and the document.
C11_FirstMatchWins ==
    [][(last'.op = "apply" /\ last'.ok)
         => \A l \in LineIds : Unassigned(l)
              => IF LineMatching(l) = {} THEN lines'[l].analytic_account = 0
                 ELSE \E r \in LineMatching(l) :
                        /\ FirstInOrder(r, LineMatching(l))
                        /\ lines'[l].analytic_account = r.assign_analytic_account]_vars

\* C11 witness: with a priority-1 rule on category wood and a priority-2 rule
\* on the contact, a wood line got the account of the priority-1 rule
C11_Witness ==
    /\ last.op = "apply" /\ last.ok /\ last.updated_lines > 0
    /\ rules = {RuleWood, RuleContact}
    /\ \E l \in LineIds : /\ lines[l].exists /\ lines[l].product = 1
                          /\ lines[l].analytic_account = 1

\* C12: a line that has an analytical account keeps it through every call of
\* apply_auto_analytics, confirm and post, whatever the rules.
C12_AssignedLinesKept ==
    [][last'.op \in {"apply", "confirm", "post"}
         => \A l \in LineIds :
              (lines[l].exists /\ lines[l].analytic_account # 0)
                => (lines'[l].exists
                    /\ lines'[l].analytic_account = lines[l].analytic_account)]_vars

\* C12 witness: a call assigned a line while a wood line with an account of
\* its own, which a rule matches, kept that account
C12_Witness ==
    /\ last.op \in {"apply", "confirm", "post"} /\ last.updated_lines > 0
    /\ RuleWood \in rules
    /\ doc.doc_type = "customer_invoice"
    /\ \E l \in LineIds : /\ lines[l].exists /\ lines[l].product = 1
                          /\ lines[l].analytic_account = OwnAccount

\* C13: a second call of apply_auto_analytics right after a first assigns no
\* line, returns updated_lines 0 and no applied rule, and leaves the lines
\* as the first call left them.
C13_ApplyIdempotent ==
    [][(last.op = "apply" /\ last.ok /\ last'.op = "apply")
         => /\ last'.ok
            /\ last'.updated_lines = 0
            /\ last'.applied_rule_ids = {}
            /\ lines' = lines
            /\ doc' = doc]_vars

\* C13 witness: the second of two calls in a row, the first having assigned
\* an account
C13_Witness ==
    /\ last.op = "apply" /\ last.ok /\ last.given = "again"
    /\ last.updated_lines = 0
    /\ \E l \in LineIds : lines[l].exists /\ lines[l].analytic_account \notin {0, OwnAccount}
    /\ \E l \in LineIds : Unassigned(l)

\* the rule of the last call of matches
CalledRule == CHOOSE r \in rules : r.id = last.rule

\* C14: matches holds for a document and a line exactly when the rule is
\* active, its transaction_type is the document's doc_type, its contact
\* filter, if set, is the document's contact, and either the line is None
\* and the rule has no product and no category filter, or the line is given,
\* the product filter, if set, is the line's product and the category filter,
\* if set, is the category of the line's product, which a line without
\* product never satisfies.
C14_MatchPredicate ==
    last.op = "matches"
        => (last.ok <=> MatchPredicate(CalledRule, inst, last.line # 0,
                                       IF last.line = 0 THEN NoLine ELSE lines[last.line]))

\* C14 witness: a rule whose only filter is the category did not match a
\* line without product
C14_Witness ==
    /\ last.op = "matches" /\ ~last.ok /\ last.line # 0
    /\ lines[last.line].product = 0
    /\ CalledRule.is_active
    /\ CalledRule.transaction_type = inst.doc_type
    /\ CalledRule.match_contact = 0 /\ CalledRule.match_product = 0
    /\ CalledRule.match_product_category = "wood"

\* C15: when an active rule of the document's type matches the document
\* alone, apply_auto_analytics leaves no line without account, and every line
\* that no rule with a product or category filter matched has the account of
\* the first such rule in (priority, id) order.
C15_DocumentLevelFallback ==
    [][(last'.op = "apply" /\ last'.ok /\ DocMatching # {})
         => /\ \A l \in LineIds : lines'[l].exists => lines'[l].analytic_account # 0
            /\ \A l \in LineIds :
                 (Unassigned(l) /\ LineMatching(l) \subseteq DocMatching)
                   => \E r \in DocMatching :
                        /\ FirstInOrder(r, DocMatching)
                        /\ lines'[l].analytic_account = r.assign_analytic_account]_vars

\* C15 witness: of two rules without product and category filter, the one of
\* the earlier priority gave its account to a line without product, and a
\* second line has an account as well
C15_Witness ==
    /\ last.op = "apply" /\ last.ok /\ last.updated_lines > 1
    /\ rules = {RuleContact, RuleAny}
    /\ \E l \in LineIds : /\ lines[l].exists /\ lines[l].product = 0
                          /\ lines[l].analytic_account = 7
    /\ \A l \in LineIds : lines[l].exists /\ lines[l].analytic_account # 0

\* whether the stored document counts for the budget of the last read
Qualifies ==
    /\ doc.exists
    /\ doc.status = "posted"
    /\ doc.doc_type = (IF last.report.budget.kind = "expense"
                       THEN "vendor_bill" ELSE "customer_invoice")
    /\ last.report.budget.start_date <= doc.issue_date
    /\ doc.issue_date <= last.report.budget.end_date

\* the line_total of line l if it counts for the budget of the last read
Counted ==
    [l \in LineIds |->
        IF /\ Qualifies
           /\ lines[l].exists
           /\ lines[l].analytic_account = last.report.budget.analytic_account
        THEN lines[l].line_total ELSE Zero]

\* C16: actual_amount of a budget is the sum of line_total over the lines of
\* the budget's cost center whose document is posted, of the type of the
\* budget's kind and dated within the period, both ends included; every
\* other line counts 0, and without such a line the result is 0.00.
C16_ActualAmount ==
    last.op = "budget" => last.report.actual_amount = SumAmt(Counted, LineIds)

\* C16 witness: an expense budget read against a posted vendor bill dated
\* on the last day of the period, one line on the budget's cost center and
\* one on another
C16_Witness ==
    /\ last.op = "budget" /\ last.report.budget.kind = "expense"
    /\ doc.doc_type = "vendor_bill" /\ doc.status = "posted"
    /\ doc.issue_date = PeriodEnd
    /\ \E l, k \in LineIds : /\ lines[l].exists /\ lines[l].analytic_account = 1
                             /\ lines[k].exists /\ lines[k].analytic_account = OwnAccount
    /\ last.report.actual_amount = Amt(0, 550)

\* C17: variance and remaining_balance of a budget of either kind are both
\* amount minus actual_amount, so they are equal, and negative when the
\* actual exceeds the amount.
C17_VarianceAndRemaining ==
    last.op = "budget"
        => /\ AAdd(last.report.variance, last.report.actual_amount)
                = last.report.budget.amount
           /\ AAdd(last.report.remaining_balance, last.report.actual_amount)
                = last.report.budget.amount
           /\ last.report.variance = last.report.remaining_balance
           /\ ALt(last.report.budget.amount, last.report.actual_amount)
                => (last.report.variance.hi < 0 /\ last.report.remaining_balance.hi < 0)

\* C17 witness: a revenue budget of 3.00 with an actual of 11.00 has a
\* variance and a remaining balance of -8.00
C17_Witness ==
    /\ last.op = "budget" /\ last.report.budget.kind = "revenue"
    /\ last.report.budget.amount = Amt(0, 300)
    /\ last.report.actual_amount = Amt(0, 1100)
    /\ last.report.variance = Amt(-1, Limb - 800)
    /\ last.report.remaining_balance = Amt(-1, Limb - 800)

\* C18: achievement_percent is 0.00 when the amount is 0, and otherwise
\* actual_amount / amount x 100 rounded to the nearest hundredth, by the
\* same formula for both kinds and with no cap at 100.
C18_AchievementPercent ==
    last.op = "budget"
        => IF last.report.budget.amount = Zero
           THEN last.report.achievement_percent = Zero
           ELSE /\ last.report.achievement_percent.hi = 0
                /\ 2 * (last.report.achievement_percent.lo * last.report.budget.amount.lo
                        - 10000 * last.report.actual_amount.lo)
                     <= last.report.budget.amount.lo
                /\ 2 * (10000 * last.report.actual_amount.lo
                        - last.report.achievement_percent.lo * last.report.budget.amount.lo)
                     <= last.report.budget.amount.lo

\* C18 witness: an expense budget of 3.00 with an actual of 5.50 is at
\* 183.33 percent
C18_Witness ==
    /\ last.op = "budget" /\ last.report.budget.kind = "expense"
    /\ last.report.budget.amount = Amt(0, 300)
    /\ last.report.actual_amount = Amt(0, 550)
    /\ last.report.achievement_percent = Amt(0, 18333)

Recalculations == {"recalculate_totals", "update_payment_status"}

\* C19: a recalculation run a second time, with no line or payment changed
\* in between, leaves total_amount, paid_amount and payment_status as the
\* first run left them.
C19_RecalculationIdempotent ==
    [][(last.op \in Recalculations /\ last'.op = last.op)
         => /\ inst'.total_amount = inst.total_amount
            /\ inst'.paid_amount = inst.paid_amount
            /\ inst'.payment_status = inst.payment_status
            /\ doc'.total_amount = doc.total_amount
            /\ doc'.paid_amount = doc.paid_amount
            /\ doc'.payment_status = doc.payment_status]_vars

\* C19 witness: the second of two recalculations in a row of a document
\* with lines and a posted payment below their total
C19_Witness ==
    /\ last.op = "recalculate_totals" /\ last.given = "again"
    /\ inst.total_amount = StoredLineTotal /\ Positive(inst.total_amount)
    /\ inst.paid_amount = StoredPostedTotal /\ Positive(inst.paid_amount)
    /\ inst.payment_status = "partially_paid"

\* C20: a recalculation changes only total_amount, paid_amount and
\* payment_status: status, number, doc_type, contact, issue_date, due_date and
\* posted_at of the document, its lines and its payments stay.
C20_RecalculationFrame ==
    [][last'.op \in Recalculations
         => /\ inst' = [inst EXCEPT !.total_amount = inst'.total_amount,
                                    !.paid_amount = inst'.paid_amount,
                                    !.payment_status = inst'.payment_status]
            /\ doc' = [doc EXCEPT !.total_amount = doc'.total_amount,
                                  !.paid_amount = doc'.paid_amount,
                                  !.payment_status = doc'.payment_status]
            /\ lines' = lines
            /\ payments' = payments]_vars

\* C20 witness: update_payment_status stored a paid_amount that was stale,
\* on a document that has a due_date
C20_Witness ==
    /\ last.op = "update_payment_status"
    /\ doc.doc_type = "customer_invoice" /\ doc.due_date = "set"
    /\ doc.paid_amount = StoredPostedTotal
    /\ doc.payment_status = "paid"
    /\ \E p \in PayIds : ~payments[p].exists

\* t (hundredths) is within half a hundredth of q * p, q in hundredths
NearestHundredth(t, q, p) ==
    /\ q * p.hi - 100 * t.hi \in -100..100
    /\ (q * p.hi - 100 * t.hi) * Limb + (q * p.lo - 100 * t.lo) \in -50..50

\* C21: every stored line has line_total = quantity x unit_price rounded to
\* 2 decimals, whatever line_total the caller of save had assigned.
C21_LineTotalIsProduct ==
    \A l \in LineIds :
        lines[l].exists
            => NearestHundredth(lines[l].line_total, lines[l].quantity, lines[l].unit_price)

\* C21 witness: a save whose caller had assigned a line_total of 99.99 stored
\* a line of 0.50 x 0.01 with line_total 0.00
C21_Witness ==
    /\ last.op \in {"line_add", "line_edit"} /\ last.ok /\ last.given = "custom"
    /\ \E l \in LineIds :
         /\ lines[l].exists
         /\ lines[l].quantity = 50 /\ lines[l].unit_price = Amt(0, 1)
         /\ lines[l].line_total = Zero

PaymentOps == {"pay_add", "pay_edit"}

\* C22: the save of a payment of a purchase or sales order, or of an amount
\* that is zero or negative, fails and stores nothing: the payments and the
\* document's paid_amount and payment_status stay.  Any other save stores the
\* payment and the document recalculated from the stored lines and payments.
C22_PaymentSave ==
    [][last'.op \in PaymentOps
         => IF doc.doc_type \notin {"vendor_bill", "customer_invoice"}
               \/ last'.given = "non_positive"
            THEN /\ ~last'.ok
                 /\ payments' = payments
                 /\ doc'.paid_amount = doc.paid_amount
                 /\ doc'.payment_status = doc.payment_status
            ELSE /\ last'.ok
                 /\ \E p \in PayIds : payments'[p].exists
                 /\ doc'.total_amount = StoredLineTotal'
                 /\ doc'.paid_amount = StoredPostedTotal']_vars

\* C22 witness: the edit of a posted payment to an amount that is not
\* positive failed, and the invoice is still paid in part by that payment
C22_Witness ==
    /\ last.op = "pay_edit" /\ ~last.ok /\ last.given = "non_positive"
    /\ doc.doc_type = "customer_invoice"
    /\ doc.payment_status = "partially_paid"
    /\ doc.paid_amount = StoredPostedTotal

\* C23: the save of a line with a negative quantity or a negative unit_price
\* fails, and the stored lines and the document's total_amount, paid_amount
\* and payment_status are what they were before the call.
C23_NegativeLineRejected ==
    [][(last'.op \in {"line_add", "line_edit"} /\ last'.given = "negative")
         => /\ ~last'.ok
            /\ lines' = lines
            /\ doc'.total_amount = doc.total_amount
            /\ doc'.paid_amount = doc.paid_amount
            /\ doc'.payment_status = doc.payment_status]_vars

\* C23 witness: the edit of a stored line of 5.50 to a negative quantity or
\* price failed, and the line and the total of 5.50 are still stored
C23_Witness ==
    /\ last.op = "line_edit" /\ ~last.ok /\ last.given = "negative"
    /\ lines[1].exists /\ lines[1].line_total = Price550
    /\ ~lines[2].exists
    /\ doc.total_amount = Price550

\* C24: a stored vendor bill or customer invoice has payment_status not_paid,
\* partially_paid or paid, never not_applicable, after its creation and after
\* every save, recalculation, line save and payment save.
C24_FinancialNeverNotApplicable ==
    (doc.exists /\ doc.doc_type \in {"vendor_bill", "customer_invoice"})
        => doc.payment_status \in {"not_paid", "partially_paid", "paid"}

\* C24 witness: a save stored not_paid for an invoice that has a total and a
\* posted payment; the caller had assigned not_applicable
C24_Witness ==
    /\ last.op = "save" /\ last.ok
    /\ doc.doc_type = "customer_invoice"
    /\ doc.payment_status = "not_paid"
    /\ Positive(doc.total_amount) /\ Positive(doc.paid_amount)

\* C25: in every stored state, the state directly after creation included,
\* total_amount is the sum of the line_total of the document's lines: a
\* total_amount the caller supplied at creation is not kept.
C25_TotalInEveryState ==
    doc.exists => doc.total_amount = StoredLineTotal

\* C26: once two concurrent saves of lines or payments of one document have
\* both completed, the stored total_amount is the sum of the stored lines and
\* the stored paid_amount of a bill or invoice is the sum of its posted
\* payments, in every interleaving.
C26_ConcurrentSavesSerialized ==
    (\A w \in Writers : writers[w].pc = "done")
        => /\ doc.total_amount = StoredLineTotal
           /\ doc.doc_type \in {"vendor_bill", "customer_invoice"}
                => doc.paid_amount = StoredPostedTotal

BudgetSaves == {"quick_entry", "admin_add", "admin_change"}

\* C27: a quick entry or admin submission that changes the amount of a stored
\* budget appends exactly one revision, which records the new amount and the
\* acting user; one that creates the budget or leaves its amount appends none.
C27_OneRevisionPerChange ==
    [][last'.op \in BudgetSaves
         => IF budgets.exists /\ budgets'.amount # budgets.amount
            THEN /\ Len(revisions') = Len(revisions) + 1
                 /\ revisions'[Len(revisions')] = Revision(budgets'.amount, last'.user)
            ELSE Len(revisions') = Len(revisions)]_vars

\* C28: the revisions of a budget only grow at the end: no operation removes
\* a revision or changes the amount or the author of one.
C28_RevisionsAppendOnly ==
    [][/\ Len(revisions') >= Len(revisions)
       /\ \A i \in 1..Len(revisions) : revisions'[i] = revisions[i]]_vars

\* the hundredths of a percentage of the report
Hundredths(a) == a.hi * Limb + a.lo

\* k is the integer nearest to s hundredths / 3, kept within 0..100
NearestAverage(k, s) ==
    \/ k = 0 /\ 2 * s <= 3 * 100
    \/ k = 100 /\ 2 * s >= 3 * 100 * 199
    \/ k \in 0..100 /\ 2 * (3 * 100 * k - s) \in -(3 * 100)..(3 * 100)

\* C29: overall_score is the rounded average of revenue_achievement_pct,
\* expense_control_pct and payment_health_pct kept within 0..100;
\* expense_control_pct is 100 - expense_used_pct kept within 0..100; a ratio
\* whose denominator is zero counts as 0.  The score is an integer in 0..100.
C29_OverallScore ==
    last.op = "score"
        => /\ last.score.overall_score \in 0..100
           /\ NearestAverage(last.score.overall_score,
                             Hundredths(last.score.revenue_achievement_pct)
                                 + Hundredths(last.score.expense_control_pct)
                                 + Hundredths(last.score.payment_health_pct))
           /\ Hundredths(last.score.expense_control_pct) \in 0..(100 * 100)
           /\ Hundredths(last.score.expense_control_pct)
                = (IF Hundredths(last.score.expense_used_pct) > 100 * 100 THEN 0
                   ELSE 100 * 100 - Hundredths(last.score.expense_used_pct))
           /\ last.score.totals.revenue_budget = Zero
                => last.score.revenue_achievement_pct = Zero
           /\ last.score.totals.expense_budget = Zero
                => last.score.expense_used_pct = Zero
           /\ last.score.totals.docs_due_total = 0
                => last.score.payment_health_pct = Zero

\* C29 witness: revenue at 366.67 percent of its budget, expense at half of
\* its budget and every due document paid on time give a score of 100
C29_Witness ==
    /\ last.op = "score"
    /\ Hundredths(last.score.revenue_achievement_pct) = 36667
    /\ Hundredths(last.score.expense_control_pct) = 5000
    /\ Hundredths(last.score.payment_health_pct) = 10000
    /\ last.score.overall_score = 100

PortalOps == {"portal_detail", "portal_pdf", "portal_pay"}

\* C30: a portal request is answered with the document (its page, its file,
\* the payment form, a redirect to its page or a recorded payment) only when
\* the user is logged in, is not staff, and is the user of an active contact
\* that is the document's contact; a request for a document of another contact
\* is answered as not found, a staff user or a user without a contact gets
\* not found for every document, and a request that is not answered with the
\* document leaves the payments as they were.
C30_PortalOnlyOwnDocuments ==
    [][last'.op \in PortalOps
         => /\ last'.response \in {"ok", "redirect", "paid", "error"}
                => /\ last'.account.is_authenticated
                   /\ ~last'.account.is_staff
                   /\ last'.account.contact_profile \in PortalContacts
                   /\ ContactRows[last'.account.contact_profile].is_active
                   /\ doc.exists
                   /\ doc.number = last'.number
                   /\ doc.contact = last'.account.contact_profile
            /\ (/\ last'.account.is_authenticated
                /\ doc.exists => doc.contact # last'.account.contact_profile)
                => last'.response = "not_found"
            /\ (/\ last'.account.is_authenticated
                /\ last'.account.is_staff \/ last'.account.contact_profile = 0)
                => last'.response = "not_found"
            /\ last'.response \in {"not_found", "login", "ok", "redirect"}
                => UNCHANGED <<doc, lines, payments>>]_vars

\* C30 witness: the user of contact 1 paid an invoice of contact 1
C30_Witness ==
    /\ last.op = "portal_pay"
    /\ last.response = "paid"
    /\ last.account = Account(TRUE, FALSE, 1)
    /\ doc.contact = 1
    /\ \E p \in PayIds : payments[p].exists

\* C31: the stored status only moves forward: a posted document stays
\* posted, a confirmed document stays confirmed or becomes posted, and a
\* posted_at that is set stays set, whatever is saved and through whichever
\* copy of the document.
C31_StatusOnlyForward ==
    [][doc.exists
         => /\ doc.status = "posted" => doc'.status = "posted"
            /\ doc.status = "confirmed" => doc'.status \in {"confirmed", "posted"}
            /\ doc.posted_at = "set" => doc'.posted_at = "set"]_vars

\* C32: a confirm that returned leaves total_amount, paid_amount and
\* payment_status of the stored document as derived from its stored lines and
\* posted payments, when they were so before the call: confirm changes the
\* status only.
C32_ConfirmKeepsTotals ==
    [][(/\ last'.op = "confirm" /\ last'.ok
        /\ doc.total_amount = StoredLineTotal
        /\ doc.paid_amount = (IF is_financial(doc) THEN StoredPostedTotal ELSE Zero)
        /\ doc.payment_status = (IF is_financial(doc)
                                 THEN PaymentStatusOf(StoredLineTotal, StoredPostedTotal)
                                 ELSE "na"))
         => /\ doc'.status = "confirmed"
            /\ doc'.total_amount = StoredLineTotal'
            /\ doc'.paid_amount = (IF is_financial(doc) THEN StoredPostedTotal' ELSE Zero)
            /\ doc'.payment_status = (IF is_financial(doc)
                                      THEN PaymentStatusOf(StoredLineTotal', StoredPostedTotal')
                                      ELSE "na")]_vars

\* the lines whose account went from unset to set in the step
NewlyAssigned ==
    {l \in LineIds : /\ lines[l].exists /\ lines[l].analytic_account = 0
                     /\ lines'[l].analytic_account # 0}

\* C33: the result of apply_auto_analytics is exact: updated_lines is the
\* number of lines whose account went from unset to set during the call, and
\* applied_rule_ids holds the id of a rule exactly when the account of that
\* rule was assigned to a line during the call.
C33_ResultExact ==
    [][(last'.op = "apply" /\ last'.ok)
         => /\ last'.updated_lines = Cardinality(NewlyAssigned)
            /\ \A r \in rules :
                 r.id \in last'.applied_rule_ids
                   <=> \E l \in NewlyAssigned :
                         lines'[l].analytic_account = r.assign_analytic_account]_vars

\* C34: in every state every stored line of a confirmed or posted document
\* has an analytical account.
C34_ConfirmedLinesHaveAccount ==
    (doc.exists /\ doc.status \in {"confirmed", "posted"})
        => \A l \in LineIds : lines[l].exists => lines[l].analytic_account # 0

\* C35: payments made through the portal never overpay: in every
\* interleaving of portal payment requests the posted payments of an invoice
\* sum to at most its total, and its stored paid_amount is at most its
\* total_amount.
C35_PortalNeverOverpays ==
    doc.exists
        => /\ ALeq(StoredPostedTotal, StoredLineTotal)
           /\ ALeq(doc.paid_amount, doc.total_amount)

\* the sum of actual_amount over the listed budgets of a kind
RowSum(kind) ==
    SumAmt([r \in last.rows |-> r.actual], {r \in last.rows : r.budget.kind = kind})

\* C36: the aggregates of the report agree with its rows: the expense actual
\* total is the sum of actual_amount over the listed expense budgets, and the
\* revenue actual total is that sum over the listed revenue budgets.
C36_TotalsAgreeWithRows ==
    last.op = "report"
        => /\ last.expense_actual_total = RowSum("expense")
           /\ last.revenue_actual_total = RowSum("revenue")

\* the account line l has after the first loop of apply_auto_analytics alone
LineLevelAccount(l) ==
    IF Unassigned(l) /\ LineMatching(l) # {}
    THEN (CHOOSE r \in LineMatching(l) : FirstInOrder(r, LineMatching(l))).assign_analytic_account
    ELSE lines[l].analytic_account

\* C37: the document-level loop of apply_auto_analytics changes no line:
\* every rule that matches the document alone matches each of its lines, so
\* after a call every line has the account the line-level loop alone gives it.
C37_DocumentPassChangesNothing ==
    [][(last'.op = "apply" /\ last'.ok)
         => /\ \A l \in LineIds : lines[l].exists => DocMatching \subseteq LineMatching(l)
            /\ \A l \in LineIds :
                 lines'[l].analytic_account = LineLevelAccount(l)]_vars

\* C37 witness: with a rule that matches the document alone present, a call
\* assigned a wood line the account of the category rule, and a line without
\* product the account of the contact rule
C37_Witness ==
    /\ last.op = "apply" /\ last.ok /\ last.updated_lines = 2
    /\ rules = {RuleWood, RuleContact}
    /\ doc.doc_type = "customer_invoice"
    /\ \E l \in LineIds : /\ lines[l].exists /\ lines[l].product = 1
                          /\ lines[l].analytic_account = 1
    /\ \E l \in LineIds : /\ lines[l].exists /\ lines[l].product = 0
                          /\ lines[l].analytic_account = 2

====
